---- MODULE Spec2Model ----
(***************************************************************************)
(* Storage-semantics layer of the podd backend: the TTL cache and the      *)
(* batch-operation tracker, over the in-repository event store (the        *)
(* in-memory list of LocusGraphService).                                   *)
(*                                                                         *)
(* Text.  A Python string is modelled as a sequence of lexemes.  A lexeme  *)
(* is one character of a cache key (letters, blank, backslash), one        *)
(* punctuation character, or a run of characters that none of the modelled *)
(* search tokens can split ("cache", "_entry", "set", a hex digest).  With *)
(* this segmentation "token in text" of Python is "the token's lexemes are *)
(* a contiguous run of the text's lexemes".                                *)
(*                                                                         *)
(* Digests.  hashlib.md5(...).hexdigest()[:n] is modelled as an atom       *)
(* determined by (n, input): equal inputs give equal digests, and the      *)
(* modelled inputs are few enough that no truncated-md5 collision occurs.  *)
(*                                                                         *)
(* Time.  datetime.now(timezone.utc) is the variable now, in seconds.      *)
(***************************************************************************)
EXTENDS Integers, Sequences, FiniteSets, TLC

VARIABLES
    events,     \* LocusGraphService._mock_events: the append-only event list
    now,        \* the clock, seconds
    log,        \* history of the cache calls made so far, with their results
    pc,         \* per caller: position inside a running get_or_set call
    loc,        \* per caller: the locals of that call
    fetches,    \* number of fetch_func invocations so far
    batch,      \* the locals of the running batch creator call
    ids         \* number of identifiers new_id() has handed out

vars == <<events, now, log, pc, loc, fetches, batch, ids>>

-----------------------------------------------------------------------------
(* Bounds of the model.                                                    *)

MaxClock == 3
MaxTtl == 2
MaxOps == 3
MaxEvents == 5
MaxItems == 2

-----------------------------------------------------------------------------
(* Python values.                                                          *)

\* Python's None (also what a cache miss returns).
None == "None"

\* Cached values: JSON-serializable values other than None.
Values == {"v1", "v2"}

\* key_params = None, and equally the falsy empty dict.
NoParams == <<>>

\* Cache keys used as inputs: a plain key, and a key holding a backslash.
Keys == {<<"k">>, <<"\\", "k">>}

TTLs == 1..MaxTtl

-----------------------------------------------------------------------------
(* Text helpers (str methods used by the store's keyword filter).          *)

\* str.lower(), lexeme by lexeme.
LowerLexeme(c) ==
    CASE c = "K" -> "k"
      [] c = "Checkup" -> "checkup"
      [] c = "Good.com" -> "good.com"
      [] c = "Appointment" -> "appointment"
      [] c = "None" -> "none"
      [] c = "True" -> "true"
      [] c = "False" -> "false"
      [] OTHER -> c

Lower(text) == [i \in 1..Len(text) |-> LowerLexeme(text[i])]

\* Python's whitespace test for one lexeme.
IsSpace(c) == c = " "

\* str.split(): the maximal runs of non-whitespace lexemes.
RECURSIVE SplitFrom(_, _, _)
SplitFrom(text, i, cur) ==
    IF i > Len(text)
    THEN IF cur = <<>> THEN {} ELSE {cur}
    ELSE IF IsSpace(text[i])
         THEN (IF cur = <<>> THEN {} ELSE {cur}) \cup SplitFrom(text, i + 1, <<>>)
         ELSE SplitFrom(text, i + 1, Append(cur, text[i]))

Split(text) == SplitFrom(text, 1, <<>>)

\* "tok in text" for Python strings.
IsSubstring(tok, text) ==
    \E i \in 0..(Len(text) - Len(tok)) :
        \A j \in 1..Len(tok) : text[i + j] = tok[j]

\* str.startswith
StartsWith(text, prefix) ==
    /\ Len(prefix) <= Len(text)
    /\ \A j \in 1..Len(prefix) : text[j] = prefix[j]

\* repr() of a str: single quotes around it, every backslash doubled.
RECURSIVE EscapeFrom(_, _)
EscapeFrom(text, i) ==
    IF i > Len(text) THEN <<>>
    ELSE (IF text[i] = "\\" THEN <<"\\", "\\">> ELSE <<text[i]>>)
         \o EscapeFrom(text, i + 1)

Repr(text) == <<"'">> \o EscapeFrom(text, 1) \o <<"'">>

\* hashlib.md5(text.encode()).hexdigest()[:n], as one lexeme.
Md5Hex(text, n) == ToString(<<"md5", n, text>>)

\* datetime.isoformat() and datetime.fromisoformat(): a timestamp string that
\* round-trips exactly (aware UTC datetimes, microsecond resolution).
IsoFormat(t) == <<"iso", t>>
FromIsoFormat(s) == s[2]

\* A datetime is [s |-> the instant in seconds, aware |-> whether it carries
\* an offset, utc |-> whether that offset is zero]: an aware UTC datetime, an
\* aware datetime of another offset, and a naive datetime.
Aware(t) == [s |-> t, aware |-> TRUE, utc |-> TRUE]
Offset(t) == [s |-> t, aware |-> TRUE, utc |-> FALSE]
Naive(t) == [s |-> t, aware |-> FALSE, utc |-> FALSE]

\* datetime.isoformat(): an aware UTC datetime prints as IsoFormat does (with
\* +00:00), another offset prints as itself, a naive one without offset.
DtIsoFormat(dt) ==
    IF dt.utc THEN IsoFormat(dt.s)
    ELSE IF dt.aware THEN <<"iso", dt.s, "+05:30">>
    ELSE <<"iso", dt.s, "naive">>

\* pydantic's model_dump(mode="json") of a datetime: UTC prints as "Z".
JsonDatetime(dt) ==
    IF dt.utc THEN <<"iso", dt.s, "Z">>
    ELSE IF dt.aware THEN <<"iso", dt.s, "+05:30">>
    ELSE <<"iso", dt.s, "naive">>

\* Whether datetime.fromisoformat accepts the text: an ISO text with offset,
\* with "Z", or without offset.  A lower-cased "z" is not accepted.
IsIsoText(text) ==
    /\ Len(text) \in {2, 3}
    /\ text[1] = "iso"
    /\ Len(text) = 3 => text[3] \in {"naive", "Z", "+05:30"}

\* datetime.fromisoformat
DtFromIsoFormat(text) ==
    [s |-> text[2],
     aware |-> (Len(text) = 2 \/ text[3] \in {"Z", "+05:30"}),
     utc |-> (Len(text) = 2 \/ text[3] = "Z")]

-----------------------------------------------------------------------------
(* The event store: LocusGraphService with USE_LOCUSGRAPH_MOCK.            *)

\* str(e.get("payload", {})): the text the keyword filter searches, for the
\* payload shapes the searched stores hold (cache entry, tombstone,
\* reminder, alarm, notification, appointment, deletion, status event,
\* contact, validation record).  The cache_key of a cache
\* entry is printed with repr(); keys and short string values are printed
\* lexeme by lexeme; the other values are printed as atoms that share no run
\* of lexemes with a search token.
PayloadText(payload) ==
    IF "cache_key" \in DOMAIN payload
    THEN <<"{", "'", "cache", "_key", "'", ":", " ">> \o Repr(payload.cache_key)
         \o <<",", " ", "'", "value", "'", ":", " ", ToString(payload.value),
              ",", " ", "'", "expires_at", "'", ":", " ", ToString(payload.expires_at),
              ",", " ", "'", "ttl_seconds", "'", ":", " ", ToString(payload.ttl_seconds),
              ",", " ", "'", "cached_at", "'", ":", " ", ToString(payload.cached_at),
              ",", " ", "'", "metadata", "'", ":", " ">>
         \o (IF payload.metadata # <<>> /\ "user_id" \in DOMAIN payload.metadata
             THEN <<"{", "'", "user", "_id", "'", ":", " ",
                    "'", payload.metadata.user_id, "'", ",", " ",
                    ToString(payload.metadata), "}">>
             ELSE <<ToString(payload.metadata)>>)
         \o <<"}">>
    ELSE IF "expired_at" \in DOMAIN payload
    THEN <<"{", "'", "expired_at", "'", ":", " ", ToString(payload.expired_at),
           ",", " ", "'", "status", "'", ":", " ", "'", "expired", "'", "}">>
    ELSE IF "trigger_at" \in DOMAIN payload
    THEN <<"{", "'", "target_entity_type", "'", ":", " ",
                "'", payload.target_entity_type, "'",
           ",", " ", "'", "target_entity_id", "'", ":", " ",
                "'", payload.target_entity_id, "'",
           ",", " ", "'", "original_event_time", "'", ":", " ",
                ToString(payload.original_event_time),
           ",", " ", "'", "trigger_at", "'", ":", " ", ToString(payload.trigger_at),
           ",", " ", "'", "reminder_minutes_before", "'", ":", " ",
                ToString(payload.reminder_minutes_before),
           ",", " ", "'", "user", "_id", "'", ":", " ", "'", payload.user_id, "'",
           ",", " ", "'", "title", "'", ":", " ", ToString(payload.title),
           ",", " ", "'", "message", "'", ":", " ", "None",
           ",", " ", "'", "metadata", "'", ":", " ", "{", "'", "temporal", "'", ":", " ",
                "{", "'", "type", "'", ":", " ", "'", "due", "'", ",", " ",
                ToString(payload.metadata.temporal.timestamp), "}", "}", "}">>
    ELSE IF "days_of_week" \in DOMAIN payload
    THEN <<"{", "'", "type", "'", ":", " ", "'", payload.type, "'",
           ",", " ", "'", "title", "'", ":", " ", "'">> \o payload.title
         \o <<"'", ",", " ", "'", "message", "'", ":", " ", "None",
              ",", " ", "'", "time", "'", ":", " ", ToString(payload.time),
              ",", " ", "'", "days_of_week", "'", ":", " ",
                   ToString(payload.days_of_week),
              ",", " ", "'", "active", "'", ":", " ", ToString(payload.active),
              ",", " ", "'", "reference_id", "'", ":", " ", "None",
              ",", " ", "'", "user", "_id", "'", ":", " ", "'", payload.user_id, "'", "}">>
    ELSE IF "alarm_id" \in DOMAIN payload /\ "read" \in DOMAIN payload
    THEN <<"{", "'", "alarm", "_id", "'", ":", " ", "'", payload.alarm_id, "'",
           ",", " ", "'", "title", "'", ":", " ", "'">> \o payload.title
         \o <<"'", ",", " ", "'", "message", "'", ":", " ", "'">> \o payload.message
         \o <<"'", ",", " ", "'", "type", "'", ":", " ", "'", payload.type, "'",
              ",", " ", "'", "read", "'", ":", " ", "False",
              ",", " ", "'", "created_at", "'", ":", " ", ToString(payload.created_at),
              ",", " ", "'", "user", "_id", "'", ":", " ", "'", payload.user_id, "'", "}">>
    ELSE IF "deleted" \in DOMAIN payload /\ "alarm_id" \in DOMAIN payload
    THEN <<"{", "'", "deleted", "'", ":", " ", "True",
           ",", " ", "'", "alarm", "_id", "'", ":", " ", "'", payload.alarm_id, "'",
           ",", " ", "'", "user", "_id", "'", ":", " ", "'", payload.user_id, "'", "}">>
    ELSE IF "scheduled_at" \in DOMAIN payload
    THEN <<"{", "'", "title", "'", ":", " ", ToString(payload.title),
           ",", " ", "'", "scheduled_at", "'", ":", " ", ToString(payload.scheduled_at),
           ",", " ", "'", "reminder_minutes_before", "'", ":", " ",
                ToString(payload.reminder_minutes_before),
           ",", " ", "'", "user", "_id", "'", ":", " ", "'", payload.user_id, "'", "}">>
    ELSE IF "deleted" \in DOMAIN payload /\ "contact_id" \in DOMAIN payload
    THEN <<"{", "'", "deleted", "'", ":", " ", "True",
           ",", " ", "'", "contact", "_id", "'", ":", " ",
                "'", payload.contact_id, "'",
           ",", " ", "'", "user", "_id", "'", ":", " ", "'", payload.user_id, "'", "}">>
    ELSE IF "deleted" \in DOMAIN payload
    THEN <<"{", "'", "deleted", "'", ":", " ", "True",
           ",", " ", "'", "appointment", "_id", "'", ":", " ",
                "'", payload.appointment_id, "'",
           ",", " ", "'", "user", "_id", "'", ":", " ", "'", payload.user_id, "'", "}">>
    ELSE IF "status" \in DOMAIN payload
    THEN <<"{", ToString(payload), "'", "status", "'", ":", " ",
           "'", payload.status, "'", "}">>
    ELSE IF "phone" \in DOMAIN payload
    THEN <<"{", "'", "name", "'", ":", " ", ToString(payload.name),
           ",", " ", "'", "relationship", "'", ":", " ", "None",
           ",", " ", "'", "phone", "'", ":", " ", ToString(payload.phone),
           ",", " ", "'", "is_", "primary", "'", ":", " ", ToString(payload.is_primary),
           ",", " ", "'", "user", "_id", "'", ":", " ", "'", payload.user_id, "'", "}">>
    ELSE IF "pattern" \in DOMAIN payload
    THEN <<"{", ToString([k \in DOMAIN payload \ {"user_id"} |-> payload[k]]),
           ",", " ", "'", "pattern", "'", ":", " ", ToString(payload.pattern),
           ",", " ", "'", "user", "_id", "'", ":", " ">>
         \o (IF payload.user_id = None THEN <<"None">> ELSE <<"'", payload.user_id, "'">>)
         \o <<"}">>
    ELSE <<ToString(payload)>>

\* payload.get(key) for a text field, <<>> (None) when the key is missing.
PayloadGet(payload, key) == IF key \in DOMAIN payload THEN payload[key] ELSE <<>>

\* The event dict that store_event appends.
NewEvent(event_kind, context_id, payload, related_to, extends, t) ==
    [event_kind |-> event_kind,
     context_id |-> context_id,
     payload    |-> payload,
     related_to |-> related_to,
     extends    |-> extends,
     timestamp  |-> IsoFormat(t)]

\* store_event: append the event to the list.
StoreEvent(evs, event_kind, context_id, payload, related_to, extends, t) ==
    Append(evs, NewEvent(event_kind, context_id, payload, related_to, extends, t))

\* The keyword filter of retrieve_context: an event passes when any token of
\* the lower-cased query occurs in its lower-cased kind, context id or payload.
MatchesQuery(e, query) ==
    \E token \in Split(Lower(query)) :
        \/ IsSubstring(token, Lower(e.event_kind))
        \/ IsSubstring(token, Lower(e.context_id))
        \/ IsSubstring(token, Lower(PayloadText(e.payload)))

\* results[:limit]
Take(s, limit) == SubSeq(s, 1, IF Len(s) < limit THEN Len(s) ELSE limit)

\* retrieve_context (mock branch): filter by context id, by event kind, by
\* the keyword query, in insertion order, and cut to the first `limit`.
\* context_ids = <<>> and context_types = {} stand for None (both falsy).
RetrieveContext(evs, query, limit, context_ids, context_types) ==
    LET byCtx   == IF context_ids # <<>>
                   THEN SelectSeq(evs, LAMBDA e :
                            \E i \in 1..Len(context_ids) : e.context_id = context_ids[i])
                   ELSE evs
        byKind  == SelectSeq(byCtx, LAMBDA e :
                            \A k \in context_types : e.event_kind = k)
        byQuery == IF query # <<>> /\ query # <<"*">>
                   THEN SelectSeq(byKind, LAMBDA e : MatchesQuery(e, query))
                   ELSE byKind
    IN  Take(byQuery, limit)

-----------------------------------------------------------------------------
(* LocusGraphCache                                                         *)

CACHE_CONTEXT_PREFIX == <<"cache", "_entry">>
CACHE_EVENT_KIND == <<"cache", ".", "set">>
CACHE_EXPIRED_KIND == <<"cache", ".", "expired">>

\* json.dumps(key_params, sort_keys=True): a text determined by the mapping,
\* whatever the order its keys were given in.
JsonDumps(key_params) == <<ToString(key_params)>>

\* _generate_cache_key
GenerateCacheKey(key, key_params) ==
    IF DOMAIN key_params = {}
    THEN <<"cache", ":">> \o key
    ELSE <<"cache", ":">> \o key \o <<":", Md5Hex(JsonDumps(key_params), 8)>>

\* _get_cache_context
GetCacheContext(cache_key) ==
    CACHE_CONTEXT_PREFIX \o <<":", Md5Hex(cache_key, 12)>>

\* The context id a tombstone is stored under.
ExpiredContext(context_id) == context_id \o <<":", "expired">>

\* _mark_expired: append the tombstone.
MarkExpired(evs, context_id, t) ==
    StoreEvent(evs, CACHE_EXPIRED_KIND, ExpiredContext(context_id),
               [expired_at |-> IsoFormat(t), status |-> "expired"],
               <<>>, <<context_id>>, t)

\* The event list the cache lookup reads: retrieve_context(query=cache_key,
\* context_ids=[context_id], limit=1).
CacheLookup(evs, key, key_params) ==
    LET cache_key == GenerateCacheKey(key, key_params)
    IN  RetrieveContext(evs, cache_key, 1, <<GetCacheContext(cache_key)>>, {})

\* Whether the entry found by get has passed its expires_at.
IsExpired(payload, t) ==
    /\ "expires_at" \in DOMAIN payload
    /\ t > FromIsoFormat(payload.expires_at)

\* LocusGraphCache.get: the value returned and the event list afterwards.
CacheGet(evs, key, key_params, t) ==
    LET cache_key  == GenerateCacheKey(key, key_params)
        context_id == GetCacheContext(cache_key)
        memories   == CacheLookup(evs, key, key_params)
    IN  IF memories = <<>>
        THEN [ret |-> None, evs |-> evs]
        ELSE IF IsExpired(memories[1].payload, t)
             THEN [ret |-> None, evs |-> MarkExpired(evs, context_id, t)]
             ELSE [ret |-> IF "value" \in DOMAIN memories[1].payload
                           THEN memories[1].payload.value ELSE None,
                   evs |-> evs]

\* LocusGraphCache.set: the event list afterwards.
CacheSet(evs, key, value, ttl_seconds, key_params, metadata, t) ==
    LET cache_key  == GenerateCacheKey(key, key_params)
        context_id == GetCacheContext(cache_key)
    IN  StoreEvent(evs, CACHE_EVENT_KIND, context_id,
                   [cache_key   |-> cache_key,
                    value       |-> value,
                    expires_at  |-> IsoFormat(t + ttl_seconds),
                    ttl_seconds |-> ttl_seconds,
                    cached_at   |-> IsoFormat(t),
                    metadata    |-> metadata],
                   <<>>, <<>>, t)

\* LocusGraphCache.invalidate: the event list afterwards.
CacheInvalidate(evs, key, key_params, t) ==
    MarkExpired(evs, GetCacheContext(GenerateCacheKey(key, key_params)), t)

\* The loop of invalidate_pattern over the memories found.
RECURSIVE MarkAllExpired(_, _, _, _)
MarkAllExpired(evs, memories, i, t) ==
    IF i > Len(memories) THEN evs
    ELSE IF StartsWith(memories[i].context_id, CACHE_CONTEXT_PREFIX)
         THEN MarkAllExpired(MarkExpired(evs, memories[i].context_id, t),
                             memories, i + 1, t)
         ELSE MarkAllExpired(evs, memories, i + 1, t)

\* LocusGraphCache.invalidate_pattern: the event list afterwards.
InvalidatePattern(evs, key_pattern, t) ==
    LET memories == RetrieveContext(evs,
                        <<"cache", " ", "entries", " ">> \o key_pattern, 100, <<>>, {})
    IN  MarkAllExpired(evs, memories, 1, t)

\* LocusGraphCache.get_or_set run without interleaving; fetched is the value
\* fetch_func returns if it is invoked.
GetOrSetRun(evs, key, fetched, ttl_seconds, key_params, t) ==
    LET cached == CacheGet(evs, key, key_params, t)
    IN  IF cached.ret # None
        THEN [ret |-> cached.ret, evs |-> cached.evs, fetches |-> 0]
        ELSE [ret |-> fetched,
              evs |-> CacheSet(cached.evs, key, fetched, ttl_seconds,
                               key_params, <<>>, t),
              fetches |-> 1]

-----------------------------------------------------------------------------
(* State shared by the specifications.                                     *)

\* The callers of the concurrent get_or_set specification.
Procs == {"p1", "p2"}

\* One entry of the call history.
LogEntry(op, key, key_params, value, ttl, ret, nfetch) ==
    [op |-> op, key |-> key, params |-> key_params, value |-> value,
     ttl |-> ttl, t |-> now, ret |-> ret, fetches |-> nfetch]

NoLocals == [key |-> <<>>, value |-> None, ttl |-> 0, ret |-> None]

NoBatch == [pc |-> "idle"]

Init ==
    /\ events = <<>>
    /\ now = 0
    /\ log = <<>>
    /\ pc = [p \in Procs |-> "idle"]
    /\ loc = [p \in Procs |-> NoLocals]
    /\ fetches = 0
    /\ batch = NoBatch
    /\ ids = 0

\* The clock advances by one second.
Tick ==
    /\ now < MaxClock
    /\ now' = now + 1
    /\ UNCHANGED <<events, log, pc, loc, fetches, batch, ids>>

-----------------------------------------------------------------------------
(* Spec: cache calls made one after another by one caller.                 *)

Set(key, value, ttl) ==
    /\ Len(log) < MaxOps
    /\ Len(events) < MaxEvents
    /\ events' = CacheSet(events, key, value, ttl, NoParams, <<>>, now)
    /\ log' = Append(log, LogEntry("set", key, NoParams, value, ttl,
                                   GetCacheContext(GenerateCacheKey(key, NoParams)), 0))
    /\ UNCHANGED <<now, pc, loc, fetches, batch, ids>>

Get(key) ==
    /\ Len(log) < MaxOps
    /\ Len(events) < MaxEvents
    /\ LET r == CacheGet(events, key, NoParams, now)
       IN  /\ events' = r.evs
           /\ log' = Append(log, LogEntry("get", key, NoParams, None, 0, r.ret, 0))
    /\ UNCHANGED <<now, pc, loc, fetches, batch, ids>>

Invalidate(key) ==
    /\ Len(log) < MaxOps
    /\ Len(events) < MaxEvents
    /\ events' = CacheInvalidate(events, key, NoParams, now)
    /\ log' = Append(log, LogEntry("invalidate", key, NoParams, None, 0, None, 0))
    /\ UNCHANGED <<now, pc, loc, fetches, batch, ids>>

GetOrSet(key, fetched, ttl) ==
    /\ Len(log) < MaxOps
    /\ Len(events) + 1 < MaxEvents
    /\ LET r == GetOrSetRun(events, key, fetched, ttl, NoParams, now)
       IN  /\ events' = r.evs
           /\ fetches' = fetches + r.fetches
           /\ log' = Append(log, LogEntry("get_or_set", key, NoParams, fetched,
                                          ttl, r.ret, r.fetches))
    /\ UNCHANGED <<now, pc, loc, batch, ids>>

Next ==
    \/ Tick
    \/ \E key \in Keys, value \in Values, ttl \in TTLs : Set(key, value, ttl)
    \/ \E key \in Keys : Get(key)
    \/ \E key \in Keys : Invalidate(key)
    \/ \E key \in Keys, fetched \in Values \cup {None}, ttl \in TTLs :
           GetOrSet(key, fetched, ttl)

Spec == Init /\ [][Next]_vars

-----------------------------------------------------------------------------
(* Claims about the cache, stated over the call history.                   *)

\* Calls that write a cache entry for the key.
WritesEntry(e, key) ==
    /\ e.key = key
    /\ \/ e.op = "set"
       \/ e.op = "get_or_set" /\ e.fetches = 1

\* No call on the key strictly between positions i and j of the history.
Untouched(key, i, j) ==
    \A m \in (i + 1)..(j - 1) : log[m].key # key

\* No call before position i wrote an entry for the key.
FirstEntry(key, i) ==
    \A m \in 1..(i - 1) : ~WritesEntry(log[m], key)

\* C1: on a key with no earlier entry, set(key, v, ttl) followed by get(key)
\* before ttl seconds have elapsed returns v.
C1_SetThenGetReturnsValue ==
    \A i \in DOMAIN log : \A j \in DOMAIN log :
        ( /\ i < j
          /\ log[i].op = "set"
          /\ log[j].op = "get"
          /\ log[j].key = log[i].key
          /\ FirstEntry(log[i].key, i)
          /\ Untouched(log[i].key, i, j)
          /\ log[j].t < log[i].t + log[i].ttl )
        => log[j].ret = log[i].value

\* A tombstone stored under the context id ctx.
TombstoneUnder(ctx) ==
    \E n \in DOMAIN events :
        /\ events[n].event_kind = CACHE_EXPIRED_KIND
        /\ events[n].context_id = ctx

\* C2: a get issued once the clock has passed the ttl of the latest set
\* returns absent, and from then on a cache.expired tombstone exists under the
\* context id that set wrote to.
C2_ExpiredGetLeavesTombstone ==
    \A i \in DOMAIN log : \A j \in DOMAIN log :
        ( /\ i < j
          /\ log[i].op = "set"
          /\ log[j].op = "get"
          /\ log[j].key = log[i].key
          /\ \A m \in (i + 1)..(j - 1) : ~WritesEntry(log[m], log[i].key)
          /\ log[j].t > log[i].t + log[i].ttl )
        => /\ log[j].ret = None
           /\ TombstoneUnder(log[i].ret)

\* C3: after invalidate(key), and until the next set for the key, every
\* get(key) returns absent.
C3_InvalidatedUntilNextSet ==
    \A i \in DOMAIN log : \A j \in DOMAIN log :
        ( /\ i < j
          /\ log[i].op = "invalidate"
          /\ log[j].op = "get"
          /\ log[j].key = log[i].key
          /\ \A m \in (i + 1)..(j - 1) : ~WritesEntry(log[m], log[i].key) )
        => log[j].ret = None

\* C4: the newest set wins: after two sets of a key, a get before the second
\* entry expires returns the second value.
C4_NewestSetWins ==
    \A i \in DOMAIN log : \A j \in DOMAIN log : \A m \in DOMAIN log :
        ( /\ i < j /\ j < m
          /\ log[i].op = "set"
          /\ log[j].op = "set"
          /\ log[m].op = "get"
          /\ log[j].key = log[i].key
          /\ log[m].key = log[i].key
          /\ Untouched(log[j].key, j, m)
          /\ log[m].t < log[j].t + log[j].ttl )
        => log[m].ret = log[j].value

\* C6: two get_or_set calls on a key with no earlier entry, one right after
\* the other and less than ttl apart, invoke fetch_func once in total and
\* return the same value.
C6_SecondCallIsAHit ==
    \A j \in DOMAIN log :
        ( /\ j + 1 \in DOMAIN log
          /\ log[j].op = "get_or_set"
          /\ log[j + 1].op = "get_or_set"
          /\ log[j + 1].key = log[j].key
          /\ FirstEntry(log[j].key, j)
          /\ log[j + 1].t < log[j].t + log[j].ttl )
        => /\ log[j].fetches + log[j + 1].fetches = 1
           /\ log[j + 1].ret = log[j].ret

-----------------------------------------------------------------------------
(* SpecWrap: the per-user domain caches, calls made one after another.     *)

Users == {"u1", "u2"}

\* query_type of the appointment cache: None or a named query.
QueryTypes == {None, "upcoming"}

\* The cached lists (as printed), and len() of each.
CachedLists == {"[a1]"}
ListLen(list) == IF list = "[]" THEN 0 ELSE 1

AppointmentCache_CACHE_KEY == <<"user_appointments">>
AppointmentCache_DEFAULT_TTL == 3600
EmergencyContactCache_CACHE_KEY == <<"user_emergency_contacts">>
EmergencyContactCache_DEFAULT_TTL == 3600

AppointmentParams(user_id, query_type) ==
    [user_id |-> user_id, query_type |-> query_type]

ContactParams(user_id) == [user_id |-> user_id]

\* f"{CACHE_KEY}:user_{user_id}:*"
UserPattern(cache_key_name, user_id) ==
    cache_key_name \o <<":", "user_", user_id, ":", "*">>

\* AppointmentCache.get_appointments
GetAppointments(user_id, query_type) ==
    /\ Len(log) < MaxOps
    /\ LET params == AppointmentParams(user_id, query_type)
           r == CacheGet(events, AppointmentCache_CACHE_KEY, params, now)
       IN  /\ Len(r.evs) <= MaxEvents
           /\ events' = r.evs
           /\ log' = Append(log, LogEntry("get", AppointmentCache_CACHE_KEY,
                                          params, None, 0, r.ret, 0))
    /\ UNCHANGED <<now, pc, loc, fetches, batch, ids>>

\* AppointmentCache.set_appointments
SetAppointments(user_id, appointments, query_type) ==
    /\ Len(log) < MaxOps
    /\ Len(events) < MaxEvents
    /\ LET params == AppointmentParams(user_id, query_type)
       IN  /\ events' = CacheSet(events, AppointmentCache_CACHE_KEY, appointments,
                                 AppointmentCache_DEFAULT_TTL, params,
                                 [user_id |-> user_id, query_type |-> query_type,
                                  count |-> ListLen(appointments)], now)
           /\ log' = Append(log, LogEntry("set", AppointmentCache_CACHE_KEY, params,
                                          appointments, AppointmentCache_DEFAULT_TTL,
                                          None, 0))
    /\ UNCHANGED <<now, pc, loc, fetches, batch, ids>>

\* AppointmentCache.invalidate_user_appointments
InvalidateUserAppointments(user_id) ==
    /\ Len(log) < MaxOps
    /\ LET evs == InvalidatePattern(events,
                      UserPattern(AppointmentCache_CACHE_KEY, user_id), now)
       IN  /\ Len(evs) <= MaxEvents
           /\ events' = evs
    /\ log' = Append(log, LogEntry("invalidate_user", AppointmentCache_CACHE_KEY,
                                   ContactParams(user_id), None, 0, None, 0))
    /\ UNCHANGED <<now, pc, loc, fetches, batch, ids>>

\* EmergencyContactCache.get_contacts
GetContacts(user_id) ==
    /\ Len(log) < MaxOps
    /\ LET params == ContactParams(user_id)
           r == CacheGet(events, EmergencyContactCache_CACHE_KEY, params, now)
       IN  /\ Len(r.evs) <= MaxEvents
           /\ events' = r.evs
           /\ log' = Append(log, LogEntry("get", EmergencyContactCache_CACHE_KEY,
                                          params, None, 0, r.ret, 0))
    /\ UNCHANGED <<now, pc, loc, fetches, batch, ids>>

\* EmergencyContactCache.set_contacts
SetContacts(user_id, contacts) ==
    /\ Len(log) < MaxOps
    /\ Len(events) < MaxEvents
    /\ LET params == ContactParams(user_id)
       IN  /\ events' = CacheSet(events, EmergencyContactCache_CACHE_KEY, contacts,
                                 EmergencyContactCache_DEFAULT_TTL, params,
                                 [user_id |-> user_id, count |-> ListLen(contacts)], now)
           /\ log' = Append(log, LogEntry("set", EmergencyContactCache_CACHE_KEY, params,
                                          contacts, EmergencyContactCache_DEFAULT_TTL,
                                          None, 0))
    /\ UNCHANGED <<now, pc, loc, fetches, batch, ids>>

\* EmergencyContactCache.invalidate_user_contacts
InvalidateUserContacts(user_id) ==
    /\ Len(log) < MaxOps
    /\ LET evs == InvalidatePattern(events,
                      UserPattern(EmergencyContactCache_CACHE_KEY, user_id), now)
       IN  /\ Len(evs) <= MaxEvents
           /\ events' = evs
    /\ log' = Append(log, LogEntry("invalidate_user", EmergencyContactCache_CACHE_KEY,
                                   ContactParams(user_id), None, 0, None, 0))
    /\ UNCHANGED <<now, pc, loc, fetches, batch, ids>>

\* The clock advances by the ttl of the domain caches.
TickHour ==
    /\ now < MaxClock * AppointmentCache_DEFAULT_TTL
    /\ now' = now + AppointmentCache_DEFAULT_TTL
    /\ UNCHANGED <<events, log, pc, loc, fetches, batch, ids>>

NextWrap ==
    \/ TickHour
    \/ \E u \in Users, q \in QueryTypes : GetAppointments(u, q)
    \/ \E u \in Users, q \in QueryTypes, l \in CachedLists : SetAppointments(u, l, q)
    \/ \E u \in Users : InvalidateUserAppointments(u)
    \/ \E u \in Users : GetContacts(u)
    \/ \E u \in Users, l \in CachedLists : SetContacts(u, l)
    \/ \E u \in Users : InvalidateUserContacts(u)

SpecWrap == Init /\ [][NextWrap]_vars

\* C5: after invalidate_user_appointments(u) (invalidate_user_contacts(u)),
\* and until the next set for that user, every get_appointments(u, q)
\* (get_contacts(u)) returns absent.
C5_UserInvalidationHidesEntries ==
    \A i \in DOMAIN log : \A j \in DOMAIN log :
        ( /\ i < j
          /\ log[i].op = "invalidate_user"
          /\ log[j].op = "get"
          /\ log[j].key = log[i].key
          /\ log[j].params.user_id = log[i].params.user_id
          /\ \A m \in (i + 1)..(j - 1) :
                ~( /\ log[m].op = "set"
                   /\ log[m].key = log[i].key
                   /\ log[m].params.user_id = log[i].params.user_id ) )
        => log[j].ret = None

-----------------------------------------------------------------------------
(* SpecRace: two callers inside get_or_set at once.  Every await of the    *)
(* coroutine (the search of get, the tombstone append, fetch_func, the     *)
(* append of set) is a point where the other caller may run.               *)

\* get_or_set is called: the caller is about to run get.
GosCall(p, key, ttl) ==
    /\ pc[p] = "idle"
    /\ pc' = [pc EXCEPT ![p] = "get"]
    /\ loc' = [loc EXCEPT ![p] = [key |-> key, value |-> None, ttl |-> ttl, ret |-> None]]
    /\ UNCHANGED <<events, now, log, fetches, batch, ids>>

\* get: the search and the expiry check.  A live non-None value is returned
\* by get_or_set at once; an expired entry is marked next; a miss goes on to
\* fetch_func.
GosGet(p) ==
    /\ pc[p] = "get"
    /\ LET memories == CacheLookup(events, loc[p].key, NoParams)
           cached == IF memories = <<>> \/ IsExpired(memories[1].payload, now)
                     THEN None
                     ELSE memories[1].payload.value
       IN  IF memories # <<>> /\ IsExpired(memories[1].payload, now)
           THEN /\ pc' = [pc EXCEPT ![p] = "mark"]
                /\ loc' = loc
           ELSE IF cached # None
                THEN /\ pc' = [pc EXCEPT ![p] = "done"]
                     /\ loc' = [loc EXCEPT ![p].ret = cached]
                ELSE /\ pc' = [pc EXCEPT ![p] = "fetch"]
                     /\ loc' = loc
    /\ UNCHANGED <<events, now, log, fetches, batch, ids>>

\* get: _mark_expired appends the tombstone, and get returns None.
GosMark(p) ==
    /\ pc[p] = "mark"
    /\ events' = MarkExpired(events,
                     GetCacheContext(GenerateCacheKey(loc[p].key, NoParams)), now)
    /\ pc' = [pc EXCEPT ![p] = "fetch"]
    /\ UNCHANGED <<now, log, loc, fetches, batch, ids>>

\* fetch_func is invoked and returns value.
GosFetch(p, value) ==
    /\ pc[p] = "fetch"
    /\ fetches' = fetches + 1
    /\ loc' = [loc EXCEPT ![p].value = value]
    /\ pc' = [pc EXCEPT ![p] = "set"]
    /\ UNCHANGED <<events, now, log, batch, ids>>

\* set appends the entry, and get_or_set returns the fetched value.
GosSet(p) ==
    /\ pc[p] = "set"
    /\ events' = CacheSet(events, loc[p].key, loc[p].value, loc[p].ttl,
                          NoParams, <<>>, now)
    /\ loc' = [loc EXCEPT ![p].ret = loc[p].value]
    /\ pc' = [pc EXCEPT ![p] = "done"]
    /\ UNCHANGED <<now, log, fetches, batch, ids>>

\* After both calls have returned, one get of the key.
RaceGet(key) ==
    /\ \A p \in Procs : pc[p] = "done" /\ loc[p].key = key
    /\ log = <<>>
    /\ LET r == CacheGet(events, key, NoParams, now)
       IN  /\ events' = r.evs
           /\ log' = Append(log, LogEntry("get", key, NoParams, None, 0, r.ret, 0))
    /\ UNCHANGED <<now, pc, loc, fetches, batch, ids>>

NextRace ==
    \/ Tick
    \/ \E p \in Procs, key \in Keys, ttl \in TTLs : GosCall(p, key, ttl)
    \/ \E p \in Procs : GosGet(p)
    \/ \E p \in Procs : GosMark(p)
    \/ \E p \in Procs, value \in Values \cup {None} : GosFetch(p, value)
    \/ \E p \in Procs : GosSet(p)
    \/ \E key \in Keys : RaceGet(key)

SpecRace == Init /\ [][NextRace]_vars

\* The cache.set entries stored under the context id of the key.
EntriesOf(key) ==
    SelectSeq(events, LAMBDA e :
        /\ e.event_kind = CACHE_EVENT_KIND
        /\ e.context_id = GetCacheContext(GenerateCacheKey(key, NoParams)))

\* Both callers have returned from get_or_set on the same key.
BothReturned ==
    /\ \A p \in Procs : pc[p] = "done"
    /\ \A p \in Procs, q \in Procs : loc[p].key = loc[q].key

\* C7: in every interleaving of two get_or_set calls on the same key,
\* fetch_func is invoked once or twice, each call returns a fetched value,
\* and once both have returned a get made before any entry expires is not
\* absent.
C7_RaceEndsCached ==
    BothReturned =>
        /\ fetches \in {1, 2}
        /\ \A p \in Procs : \E q \in Procs : loc[p].ret = loc[q].value
        /\ \A j \in DOMAIN log :
              ( /\ log[j].op = "get"
                /\ \A n \in DOMAIN events :
                      "expires_at" \in DOMAIN events[n].payload
                          => log[j].t < FromIsoFormat(events[n].payload.expires_at) )
              => log[j].ret # None

\* C7 (interleaving exists): both callers missed, both invoked fetch_func, and
\* two cache.set entries lie under the same context id.
C7_DuplicateEntries ==
    /\ BothReturned
    /\ fetches = 2
    /\ \E key \in Keys : Len(EntriesOf(key)) = 2

-----------------------------------------------------------------------------
(* Batch operations (services/batch/operations.py).                        *)
(*                                                                         *)
(* A store call of the production client may raise (transport failure);    *)
(* it then leaves no event.  Which of the store calls made for one item    *)
(* raise is chosen by the environment, as a set of call sites.             *)

\* locusgraph_service.new_id(): the n-th identifier handed out.
NewId(n) == "id" \o ToString(n)

BATCH_CONTEXT_PREFIX == "batch_operation"
BATCH_EVENT_KIND == <<"batch", ".", "create">>
APPOINTMENT_CREATE == <<"appointment", ".", "create">>
EMERGENCY_CONTACT_CREATE == <<"emergency_contact", ".", "create">>
MEDITATION_SESSION_CREATE == <<"meditation_session", ".", "create">>
REMINDER_CONTEXT_PREFIX == "reminder_scheduled"
SCHEDULED_EVENT_KIND == <<"reminder", ".", "scheduled">>

\* reminder_minutes_before of an input item: absent, an int, or (from an
\* unvalidated dict) a numeric string.
NoReminder == [kind |-> "none", n |-> 0]
IntReminder == [kind |-> "int", n |-> 15]
StrReminder == [kind |-> "str", n |-> 15]

\* Input items of create_appointments.
AppointmentItems ==
    { [title |-> "t1", scheduled_at |-> 7200, reminder |-> NoReminder],
      [title |-> "t1", scheduled_at |-> 7200, reminder |-> IntReminder],
      [title |-> "t2", scheduled_at |-> 7200, reminder |-> StrReminder],
      [title |-> None, scheduled_at |-> 7200, reminder |-> NoReminder] }

\* Input items of create_emergency_contacts.
ContactItems ==
    { [name |-> "n1", phone |-> "p1", is_primary |-> TRUE],
      [name |-> "n2", phone |-> "p2", is_primary |-> TRUE],
      [name |-> "n3", phone |-> "p3", is_primary |-> FALSE],
      [name |-> None, phone |-> "p4", is_primary |-> TRUE] }

\* Input items of create_sessions.
SessionItems ==
    { [title |-> "s1", category |-> "sleep"],
      [title |-> None, category |-> "sleep"] }

ItemsOf(entity_type) ==
    CASE entity_type = "appointment" -> AppointmentItems
      [] entity_type = "emergency_contact" -> ContactItems
      [] entity_type = "meditation_session" -> SessionItems

\* The store calls made while one item is processed.
CallSites == {"append", "reminder", "add_entity", "add_entity_failed"}

\* Input lists of at most MaxItems items.
ItemLists(entity_type) ==
    UNION { [1..n -> ItemsOf(entity_type)] : n \in 0..MaxItems }

\* ContextIdPattern.<ENTITY>.format(id=...)
EntityContext(entity_type, id) == <<entity_type, ":", id>>

EventKindOf(entity_type) ==
    CASE entity_type = "appointment" -> APPOINTMENT_CREATE
      [] entity_type = "emergency_contact" -> EMERGENCY_CONTACT_CREATE
      [] entity_type = "meditation_session" -> MEDITATION_SESSION_CREATE

\* Whether <Entity>EventDefinition.create_payload (and, for an appointment,
\* datetime.fromisoformat) accepts the item: the required str fields are set.
PayloadAccepted(entity_type, item) ==
    IF entity_type = "emergency_contact" THEN item.name # None ELSE item.title # None

\* The payload create_payload returns for the item.
CreatePayload(entity_type, item, is_primary, user_id) ==
    CASE entity_type = "appointment" ->
            [title |-> item.title,
             scheduled_at |-> JsonDatetime(DtFromIsoFormat(IsoFormat(item.scheduled_at))),
             reminder_minutes_before |->
                 IF item.reminder.kind = "none" THEN None ELSE ToString(item.reminder.n),
             user_id |-> user_id]
      [] entity_type = "emergency_contact" ->
            [name |-> item.name, phone |-> item.phone,
             is_primary |-> is_primary, user_id |-> user_id]
      [] entity_type = "meditation_session" ->
            [title |-> item.title, category |-> item.category]

\* BatchOperation.create: the batch context id.
BatchContext(user_id, entity_type, batch_id) ==
    <<BATCH_CONTEXT_PREFIX, ":", user_id, ":", entity_type, ":", batch_id>>

\* BatchOperation.create: the root event appended.
BatchCreate(evs, user_id, entity_type, batch_id, description, t) ==
    StoreEvent(evs, BATCH_EVENT_KIND, BatchContext(user_id, entity_type, batch_id),
               [batch_id |-> batch_id, entity_type |-> entity_type,
                operation_type |-> "create", user_id |-> user_id,
                description |-> description, created_at |-> IsoFormat(t),
                entity_ids |-> <<>>, status |-> "in_progress", total_items |-> 0,
                successful_items |-> 0, failed_items |-> 0],
               <<>>, <<>>, t)

\* BatchOperation.add_entity
AddEntity(evs, batch_context, entity_id, success, error_message, t) ==
    StoreEvent(evs, <<"batch", ".", "item_added">>,
               batch_context \o <<":", "item", ":", entity_id>>,
               [entity_id |-> entity_id, success |-> success,
                error_message |-> error_message, added_at |-> IsoFormat(t)],
               <<batch_context>>, <<>>, t)

\* BatchOperation.complete
BatchComplete(evs, batch_context, total_items, successful_items, failed_items, entity_ids, t) ==
    StoreEvent(evs, <<"batch", ".", "completed">>,
               batch_context \o <<":", "completed">>,
               [total_items |-> total_items, successful_items |-> successful_items,
                failed_items |-> failed_items, entity_ids |-> entity_ids,
                completed_at |-> IsoFormat(t), status |-> "completed"],
               <<>>, <<batch_context>>, t)

\* TemporalScheduler.schedule_reminder: the reminder event appended, under a
\* context made from reminder_id.  trigger_at is a datetime, minutes an int.
ScheduleReminder(evs, target_entity_type, target_entity_id, trigger_at, minutes, user_id, title, reminder_id, t) ==
    LET reminder_time == [trigger_at EXCEPT !.s = @ - 60 * minutes]
    IN  StoreEvent(evs, SCHEDULED_EVENT_KIND,
                   <<REMINDER_CONTEXT_PREFIX, ":", reminder_id>>,
                   [target_entity_type |-> target_entity_type,
                    target_entity_id |-> target_entity_id,
                    original_event_time |-> DtIsoFormat(trigger_at),
                    trigger_at |-> DtIsoFormat(reminder_time),
                    reminder_minutes_before |-> minutes,
                    user_id |-> user_id, title |-> title, message |-> None,
                    metadata |-> [temporal |->
                        [type |-> "due", timestamp |-> DtIsoFormat(reminder_time),
                         timezone |-> "UTC"]]],
                   <<EntityContext(target_entity_type, target_entity_id)>>, <<>>, t)

\* The locals of a batch creator at its entry.
BatchLocals(entity_type, user_id, items, flag) ==
    [pc |-> "create", entity_type |-> entity_type, user_id |-> user_id,
     items |-> items, flag |-> flag, i |-> 1, batch_context |-> <<>>,
     created_ids |-> <<>>, successful_count |-> 0, failed_count |-> 0,
     primary_count |-> 0, counted |-> <<>>, raised_at |-> None, ret |-> None]

\* Mutant of StoredIsPrimary: the primary rule is not applied.
StoredIsPrimaryAsGiven(b, item) ==
    IF b.entity_type # "emergency_contact" THEN FALSE ELSE item.is_primary

\* is_primary as written for a contact (the "ensure one primary" rule).
StoredIsPrimary(b, item) ==
    IF b.entity_type # "emergency_contact" THEN FALSE
    ELSE IF b.flag /\ item.is_primary /\ b.primary_count > 0 THEN FALSE
    ELSE item.is_primary

\* Mutant of ItemFailed: the except branch counts the failure but does not
\* call add_entity.
ItemFailedUnrecorded(b, evs, n, entity_id, created_ids, primary_count, error, raises, t) ==
    [b |-> [b EXCEPT !.created_ids = created_ids,
                     !.primary_count = primary_count,
                     !.failed_count = @ + 1,
                     !.i = @ + 1,
                     !.counted = Append(@, [id |-> entity_id, success |-> FALSE])],
     evs |-> evs,
     ids |-> n]

\* The except branch of the loop body: add_entity(success=False) and
\* failed_count += 1; the exception escapes if that store call raises too.
ItemFailed(b, evs, n, entity_id, created_ids, primary_count, error, raises, t) ==
    IF "add_entity_failed" \in raises
    THEN [b |-> [b EXCEPT !.pc = "raised", !.raised_at = "item",
                          !.created_ids = created_ids,
                          !.primary_count = primary_count],
          evs |-> evs, ids |-> n]
    ELSE [b |-> [b EXCEPT !.created_ids = created_ids,
                          !.primary_count = primary_count,
                          !.failed_count = @ + 1,
                          !.i = @ + 1,
                          !.counted = Append(@, [id |-> entity_id, success |-> FALSE])],
          evs |-> AddEntity(evs, b.batch_context, entity_id, FALSE, error, t),
          ids |-> n]

\* The end of the try branch: add_entity(success=True), successful_count += 1.
ItemSucceeded(b, evs, n, entity_id, created_ids, primary_count, t) ==
    [b |-> [b EXCEPT !.created_ids = created_ids,
                     !.primary_count = primary_count,
                     !.successful_count = @ + 1,
                     !.i = @ + 1,
                     !.counted = Append(@, [id |-> entity_id, success |-> TRUE])],
     evs |-> AddEntity(evs, b.batch_context, entity_id, TRUE, None, t),
     ids |-> n]

\* One iteration of the loop of create_appointments / create_emergency_contacts /
\* create_sessions over item, with the store calls in raises raising.
\* n is the number of identifiers handed out before the iteration.
ProcessItem(b, evs, n, item, raises, t) ==
    LET entity_id  == NewId(n)
        is_primary == StoredIsPrimary(b, item)
        wantsReminder ==
            /\ b.entity_type = "appointment"
            /\ b.flag
            /\ item.reminder.kind # "none"
    IN  IF ~PayloadAccepted(b.entity_type, item)
        THEN ItemFailed(b, evs, n + 1, entity_id, b.created_ids, b.primary_count,
                        "ValidationError", raises, t)
        ELSE IF "append" \in raises
        THEN ItemFailed(b, evs, n + 1, entity_id, b.created_ids, b.primary_count,
                        "store_event raised", raises, t)
        ELSE
        LET evs1 == StoreEvent(evs, EventKindOf(b.entity_type),
                               EntityContext(b.entity_type, entity_id),
                               CreatePayload(b.entity_type, item, is_primary, b.user_id),
                               <<b.batch_context>>, <<>>, t)
            created_ids == Append(b.created_ids, entity_id)
            primary_count == IF is_primary THEN b.primary_count + 1
                             ELSE b.primary_count
        IN  IF wantsReminder /\ item.reminder.kind = "str"
            THEN ItemFailed(b, evs1, n + 1, entity_id, created_ids, primary_count,
                            "TypeError", raises, t)
            ELSE IF wantsReminder /\ "reminder" \in raises
            THEN ItemFailed(b, evs1, n + 2, entity_id, created_ids, primary_count,
                            "store_event raised", raises, t)
            ELSE
            LET evs2 == IF wantsReminder
                        THEN ScheduleReminder(evs1, "appointment", entity_id,
                                              DtFromIsoFormat(IsoFormat(item.scheduled_at)),
                                              item.reminder.n,
                                              b.user_id, item.title, NewId(n + 1), t)
                        ELSE evs1
                n2 == IF wantsReminder THEN n + 2 ELSE n + 1
            IN  IF "add_entity" \in raises
                THEN ItemFailed(b, evs2, n2, entity_id, created_ids, primary_count,
                                "store_event raised", raises, t)
                ELSE ItemSucceeded(b, evs2, n2, entity_id, created_ids,
                                   primary_count, t)

\* The dict a batch creator returns.
BatchSummary(b) ==
    IF b.entity_type = "emergency_contact"
    THEN [batch_context |-> b.batch_context, total_items |-> Len(b.items),
          successful_items |-> b.successful_count, failed_items |-> b.failed_count,
          entity_ids |-> b.created_ids, primary_contacts |-> b.primary_count]
    ELSE [batch_context |-> b.batch_context, total_items |-> Len(b.items),
          successful_items |-> b.successful_count, failed_items |-> b.failed_count,
          entity_ids |-> b.created_ids]

-----------------------------------------------------------------------------
(* SpecBatch: one call of a batch creator.                                 *)

EntityTypes == {"appointment", "emergency_contact", "meditation_session"}

\* A creator is called and BatchOperation.create appends the root event
\* (or raises).  flag is schedule_reminders / ensure_one_primary.
BatchCall(entity_type, user_id, items, flag, raises) ==
    /\ batch.pc = "idle"
    /\ LET b == BatchLocals(entity_type, user_id, items, flag)
           batch_id == NewId(ids)
       IN  /\ ids' = ids + 1
           /\ IF raises
              THEN /\ batch' = [b EXCEPT !.pc = "raised", !.raised_at = "create"]
                   /\ events' = events
              ELSE /\ batch' = [b EXCEPT !.pc = "loop",
                                  !.batch_context =
                                      BatchContext(user_id, entity_type, batch_id)]
                   /\ events' = BatchCreate(events, user_id, entity_type, batch_id,
                                            Len(items), now)
    /\ UNCHANGED <<now, log, pc, loc, fetches>>

\* The loop body runs for the next item.
BatchItem(raises) ==
    /\ batch.pc = "loop"
    /\ batch.i <= Len(batch.items)
    /\ LET r == ProcessItem(batch, events, ids, batch.items[batch.i], raises, now)
       IN  /\ batch' = r.b
           /\ events' = r.evs
           /\ ids' = r.ids
    /\ UNCHANGED <<now, log, pc, loc, fetches>>

\* After the loop: BatchOperation.complete appends the rollup (or raises) and
\* the summary is returned.
BatchFinish(raises) ==
    /\ batch.pc = "loop"
    /\ batch.i > Len(batch.items)
    /\ IF raises
       THEN /\ batch' = [batch EXCEPT !.pc = "raised", !.raised_at = "complete"]
            /\ events' = events
       ELSE /\ batch' = [batch EXCEPT !.pc = "returned", !.ret = BatchSummary(batch)]
            /\ events' = BatchComplete(events, batch.batch_context, Len(batch.items),
                                       batch.successful_count, batch.failed_count,
                                       batch.created_ids, now)
    /\ UNCHANGED <<now, log, pc, loc, fetches, ids>>

NextBatch ==
    \/ \E entity_type \in EntityTypes : \E items \in ItemLists(entity_type),
          flag \in BOOLEAN, raises \in BOOLEAN :
           BatchCall(entity_type,
                     IF entity_type = "meditation_session" THEN "system" ELSE "u1",
                     items, flag, raises)
    \/ \E raises \in SUBSET CallSites : BatchItem(raises)
    \/ \E raises \in BOOLEAN : BatchFinish(raises)

SpecBatch == Init /\ [][NextBatch]_vars

-----------------------------------------------------------------------------
(* Claims about the batch creators.                                        *)

\* The batch.completed rollups that extend the batch context.
Rollups ==
    SelectSeq(events, LAMBDA e :
        /\ e.event_kind = <<"batch", ".", "completed">>
        /\ e.extends = <<batch.batch_context>>)

\* The batch.item_added events linked to the batch context.
ItemEvents ==
    SelectSeq(events, LAMBDA e :
        /\ e.event_kind = <<"batch", ".", "item_added">>
        /\ e.related_to = <<batch.batch_context>>)

\* The ids of the items counted as successful, in input order.
SuccessfulIds ==
    LET ok == SelectSeq(batch.counted, LAMBDA c : c.success)
    IN  [k \in 1..Len(ok) |-> ok[k].id]

\* The counts and the id list of a summary or rollup payload are consistent.
ConsistentCounts(r) ==
    /\ r.total_items = Len(batch.items)
    /\ r.total_items = r.successful_items + r.failed_items
    /\ Len(r.entity_ids) = r.successful_items
    /\ r.entity_ids = SuccessfulIds

\* C8: the summary returned by create_appointments and the batch.completed
\* event satisfy total_items = N = successful_items + failed_items and
\* entity_ids holds exactly the ids of the items counted as successful.
C8_SummaryCountsConsistent ==
    (batch.pc = "returned" /\ batch.entity_type = "appointment") =>
        /\ ConsistentCounts(batch.ret)
        /\ \A k \in DOMAIN Rollups : ConsistentCounts(Rollups[k].payload)

\* C9: a batch creator that got past BatchOperation.create is not ended by a
\* store call that raises while one item is processed: it goes on to the
\* rollup, and when it returns exactly one batch.completed rollup exists.
C9_ItemFailuresDoNotEscape ==
    /\ ~(batch.pc = "raised" /\ batch.raised_at = "item")
    /\ batch.pc = "returned" => Len(Rollups) = 1

\* C10: when a batch creator returns, exactly one batch.item_added event
\* linked to the batch context exists per input item, in input order, and its
\* success flag is true exactly for the items counted in successful_items.
C10_OneItemEventPerItem ==
    batch.pc = "returned" =>
        /\ Len(ItemEvents) = Len(batch.items)
        /\ Len(batch.counted) = Len(batch.items)
        /\ \A k \in DOMAIN ItemEvents :
              /\ ItemEvents[k].payload.entity_id = batch.counted[k].id
              /\ ItemEvents[k].payload.success = batch.counted[k].success
        /\ \A k \in DOMAIN ItemEvents : \A m \in DOMAIN ItemEvents :
              ItemEvents[k].payload.entity_id = ItemEvents[m].payload.entity_id => k = m
        /\ Cardinality({k \in DOMAIN ItemEvents : ItemEvents[k].payload.success})
               = batch.ret.successful_items

\* C10 (witness): a creator has returned from a list of two items, one
\* recorded as a success and one as a failure.
C10_MixedBatchReturned ==
    /\ batch.pc = "returned"
    /\ Len(batch.items) = 2
    /\ batch.ret.successful_items = 1
    /\ batch.ret.failed_items = 1
    /\ Len(ItemEvents) = 2

-----------------------------------------------------------------------------
(* Claims about what the batch creators store.                             *)

\* The domain events (appointment.create, ...) linked to the batch context,
\* in the order they were appended.
BatchEntityEvents ==
    SelectSeq(events, LAMBDA e :
        /\ e.event_kind = EventKindOf(batch.entity_type)
        /\ e.related_to = <<batch.batch_context>>)

\* C11: a batch create stores no appointment that duplicates an earlier item
\* of the same batch (same title and scheduled_at); the duplicate is
\* recorded as a failed item instead.
C11_BatchRejectsDuplicates ==
    (batch.pc = "returned" /\ batch.entity_type = "appointment") =>
        \A k \in DOMAIN BatchEntityEvents : \A m \in DOMAIN BatchEntityEvents :
            ( /\ BatchEntityEvents[k].payload.title = BatchEntityEvents[m].payload.title
              /\ BatchEntityEvents[k].payload.scheduled_at
                     = BatchEntityEvents[m].payload.scheduled_at )
            => k = m

\* The input positions whose contact event was appended.
StoredItems ==
    { k \in 1..Len(batch.counted) :
        \E j \in DOMAIN BatchEntityEvents :
            BatchEntityEvents[j].context_id
                = EntityContext(batch.entity_type, batch.counted[k].id) }

\* is_primary of the contact event appended for input position k.
StoredFlag(k) ==
    LET j == CHOOSE j \in DOMAIN BatchEntityEvents :
                 BatchEntityEvents[j].context_id
                     = EntityContext(batch.entity_type, batch.counted[k].id)
    IN  BatchEntityEvents[j].payload.is_primary

\* The input positions given with is_primary = true.
GivenPrimary == { k \in DOMAIN batch.items : batch.items[k].is_primary }

\* create_emergency_contacts has returned from a call with ensure_one_primary.
ContactsReturned ==
    /\ batch.pc = "returned"
    /\ batch.entity_type = "emergency_contact"
    /\ batch.flag

\* C12 (as stated): at most one stored contact is primary; when the list
\* holds an is_primary item, the first such item in input order is the one
\* stored as primary and every later is_primary item is stored non-primary.
C12_FirstGivenPrimaryIsKept ==
    ContactsReturned =>
        /\ Cardinality({ k \in StoredItems : StoredFlag(k) }) <= 1
        /\ GivenPrimary # {} =>
              \A k \in GivenPrimary :
                 IF \A m \in GivenPrimary : k <= m
                 THEN k \in StoredItems /\ StoredFlag(k)
                 ELSE k \in StoredItems => ~StoredFlag(k)

\* C12 (amended): at most one stored contact is primary; among the
\* is_primary items whose contact event was appended, the first in input
\* order is stored as primary and every later one is stored non-primary;
\* an item given non-primary is stored non-primary.
C12_FirstStoredPrimaryIsKept ==
    ContactsReturned =>
        /\ Cardinality({ k \in StoredItems : StoredFlag(k) }) <= 1
        /\ \A k \in StoredItems :
              StoredFlag(k) <=>
                 /\ k \in GivenPrimary
                 /\ \A m \in StoredItems \cap GivenPrimary : k <= m

\* C12 (witness): a call with ensure_one_primary returned after storing two
\* contacts that were both given as primary.
C12_TwoPrimariesStored ==
    /\ ContactsReturned
    /\ Cardinality(StoredItems \cap GivenPrimary) = 2

-----------------------------------------------------------------------------
(* DuplicateDetector: the scoring functions.                               *)
(*                                                                         *)
(* A field value is a text (a sequence of lexemes; <<>> is the empty       *)
(* string, falsy like None) or a timestamp text as IsoFormat writes it.    *)
(* Scores are exact rationals [num, den]; float rounding is not modelled.  *)

\* Python truthiness of a field value.
Truthy(v) == v # <<>>

\* str.strip()
RECURSIVE Strip(_)
Strip(text) ==
    IF text = <<>> THEN <<>>
    ELSE IF IsSpace(text[1]) THEN Strip(Tail(text))
    ELSE IF IsSpace(text[Len(text)]) THEN Strip(SubSeq(text, 1, Len(text) - 1))
    ELSE text

\* str(value).lower().strip(); a timestamp text keeps its meaning (the
\* lower-cased separator still parses) unless it ends in "Z".
LowerStrip(v) ==
    IF IsIsoText(v)
    THEN (IF Len(v) = 3 /\ v[3] = "Z" THEN <<"iso", v[2], "z">> ELSE v)
    ELSE Strip(Lower(v))

\* A score: num / den.
Rat(num, den) == [num |-> num, den |-> den]

\* The outcome of a call that raises TypeError instead of returning.
TypeError == [raises |-> "TypeError"]
RatEq(a, b) == a.num * b.den = b.num * a.den
RatLeq(a, b) == a.num * b.den <= b.num * a.den
RatLt(a, b) == a.num * b.den < b.num * a.den

Abs(x) == IF x < 0 THEN -x ELSE x

\* Mutant of TimeSimilarity: the 5-minute band is missing.
TimeSimilarityCoarse(str1, str2) ==
    IF ~IsIsoText(str1) \/ ~IsIsoText(str2) THEN Rat(0, 10)
    ELSE IF DtFromIsoFormat(str1).aware # DtFromIsoFormat(str2).aware THEN TypeError
    ELSE LET diff == Abs(DtFromIsoFormat(str1).s - DtFromIsoFormat(str2).s)
         IN  IF diff < 15 * 60 THEN Rat(9, 10)
             ELSE IF diff < 30 * 60 THEN Rat(7, 10)
             ELSE IF diff < 60 * 60 THEN Rat(5, 10)
             ELSE IF diff < 120 * 60 THEN Rat(3, 10)
             ELSE IF diff < 1440 * 60 THEN Rat(1, 10)
             ELSE Rat(0, 10)

\* _time_similarity: 0.0 when either text does not parse; TypeError when one
\* datetime is naive and the other aware (the subtraction is outside the
\* try); else the band of the difference, compared in seconds.
TimeSimilarity(str1, str2) ==
    IF ~IsIsoText(str1) \/ ~IsIsoText(str2) THEN Rat(0, 10)
    ELSE IF DtFromIsoFormat(str1).aware # DtFromIsoFormat(str2).aware THEN TypeError
    ELSE LET diff == Abs(DtFromIsoFormat(str1).s - DtFromIsoFormat(str2).s)
         IN  IF diff < 5 * 60 THEN Rat(10, 10)
             ELSE IF diff < 15 * 60 THEN Rat(9, 10)
             ELSE IF diff < 30 * 60 THEN Rat(7, 10)
             ELSE IF diff < 60 * 60 THEN Rat(5, 10)
             ELSE IF diff < 120 * 60 THEN Rat(3, 10)
             ELSE IF diff < 1440 * 60 THEN Rat(1, 10)
             ELSE Rat(0, 10)

\* Mutant of TextSimilarity: containment is tested in one direction only.
TextSimilarityOneWay(str1, str2) ==
    IF str1 = str2 THEN Rat(1, 1)
    ELSE IF IsSubstring(str1, str2) THEN Rat(8, 10)
    ELSE LET words1 == Split(str1)
             words2 == Split(str2)
         IN  IF words1 = {} \/ words2 = {} THEN Rat(0, 1)
             ELSE Rat(Cardinality(words1 \cap words2), Cardinality(words1 \cup words2))

\* _text_similarity: equal, contained, or the word overlap |A & B| / |A | B|.
TextSimilarity(str1, str2) ==
    IF str1 = str2 THEN Rat(1, 1)
    ELSE IF IsSubstring(str1, str2) \/ IsSubstring(str2, str1) THEN Rat(8, 10)
    ELSE LET words1 == Split(str1)
             words2 == Split(str2)
         IN  IF words1 = {} \/ words2 = {} THEN Rat(0, 1)
             ELSE Rat(Cardinality(words1 \cap words2), Cardinality(words1 \cup words2))

\* The weight of a field, doubled (2.0, 3.0, 1.5, 1.0).
Weight2(key) ==
    IF key \in {"title", "name", "doctor_name"} THEN 4
    ELSE IF key \in {"scheduled_at", "time"} THEN 6
    ELSE IF key \in {"location", "phone"} THEN 3
    ELSE 2

\* The similarity of one field, by field type.
FieldSimilarity(key, search_value, payload_value) ==
    LET search_str == LowerStrip(search_value)
        payload_str == LowerStrip(payload_value)
    IN  IF key \in {"scheduled_at", "time", "created_at"}
        THEN TimeSimilarity(search_str, payload_str)
        ELSE IF key \in {"phone", "email"}
        THEN (IF search_str = payload_str THEN Rat(1, 1) ELSE Rat(0, 1))
        ELSE TextSimilarity(search_str, payload_str)

\* The fields _calculate_similarity scores: present and truthy on both sides.
ScoredFields(search_fields, payload) ==
    { key \in DOMAIN search_fields \cap DOMAIN payload :
        Truthy(search_fields[key]) /\ Truthy(payload[key]) }

\* sum over keys of similarity * weight (as a rational) and of weight.
RECURSIVE WeightedSum(_, _, _)
WeightedSum(keys, search_fields, payload) ==
    IF keys = {} THEN Rat(0, 1)
    ELSE LET key == CHOOSE k \in keys : TRUE
             sim == FieldSimilarity(key, search_fields[key], payload[key])
             rest == WeightedSum(keys \ {key}, search_fields, payload)
         IN  Rat(sim.num * Weight2(key) * rest.den + rest.num * sim.den,
                 sim.den * rest.den)

RECURSIVE TotalWeight2(_)
TotalWeight2(keys) ==
    IF keys = {} THEN 0
    ELSE LET key == CHOOSE k \in keys : TRUE
         IN  Weight2(key) + TotalWeight2(keys \ {key})

\* _calculate_similarity: the weighted mean over the scored fields, 0.0 when
\* there is none; a TypeError of _time_similarity propagates.
CalculateSimilarity(search_fields, payload) ==
    LET keys == ScoredFields(search_fields, payload)
    IN  IF \E key \in keys :
               FieldSimilarity(key, search_fields[key], payload[key]) = TypeError
        THEN TypeError
        ELSE IF keys = {} THEN Rat(0, 1)
        ELSE LET total == WeightedSum(keys, search_fields, payload)
             IN  Rat(total.num, total.den * TotalWeight2(keys))

-----------------------------------------------------------------------------
(* SpecScore: the scoring functions applied to inputs drawn from small     *)
(* sets.  Each call is recorded in log.                                    *)

\* Timestamps around the band limits of _time_similarity, in seconds.
BandTimes ==
    {0, 299, 300, 899, 900, 1799, 1800, 3599, 3600, 7199, 7200, 86399, 86400}

\* Timestamp texts: aware and naive ISO texts, and a text that does not parse.
TimeTexts ==
    { DtIsoFormat(Aware(t)) : t \in BandTimes } \cup { DtIsoFormat(Naive(0)), <<"noon">> }

\* Titles.
Titles == { <<"Checkup">>, <<"dental", " ", "checkup">>, <<"eye", " ", "exam">>,
            <<"dental", " ", "exam">>, <<" ">>, <<>> }

\* Phone numbers.
Phones == { <<"555">>, <<"556">> }

\* The dict with the given fields; "absent" leaves the field out.
Absent == <<"absent">>
FieldDict(title, time, phone) ==
    LET all == [key \in {"title", "time", "phone"} |->
                   CASE key = "title" -> title
                     [] key = "time" -> time
                     [] key = "phone" -> phone]
    IN  [key \in { k \in {"title", "time", "phone"} : all[k] # Absent } |-> all[key]]

\* Dicts with the fields {title} and with the fields {title, time}.
TitleOnlyDicts == { FieldDict(ti, Absent, Absent) : ti \in Titles }
TitleTimeDicts ==
    { FieldDict(ti, tm, Absent) :
        ti \in Titles, tm \in {IsoFormat(0), IsoFormat(600), <<"noon">>} }

\* search_fields and candidate payloads for _calculate_similarity.
ScoreDicts ==
    TitleOnlyDicts \cup TitleTimeDicts
    \cup { FieldDict(ti, tm, ph) :
             ti \in {<<"Checkup">>, <<"eye", " ", "exam">>},
             tm \in {IsoFormat(0), IsoFormat(300), DtIsoFormat(Naive(0)), <<"noon">>},
             ph \in Phones }

\* _time_similarity(str1, str2) is called, and with the arguments swapped.
TimeSimilarityCall(str1, str2) ==
    /\ Len(log) < 1
    /\ log' = Append(log, [op |-> "time_similarity", str1 |-> str1, str2 |-> str2,
                           ret |-> TimeSimilarity(str1, str2),
                           swapped |-> TimeSimilarity(str2, str1)])
    /\ UNCHANGED <<events, now, pc, loc, fetches, batch, ids>>

\* _calculate_similarity(search_fields, payload) is called, and with the two
\* dicts in each other's role.
CalculateSimilarityCall(search_fields, payload) ==
    /\ Len(log) < 1
    /\ log' = Append(log, [op |-> "calculate_similarity",
                           search_fields |-> search_fields, payload |-> payload,
                           ret |-> CalculateSimilarity(search_fields, payload),
                           swapped |-> CalculateSimilarity(payload, search_fields)])
    /\ UNCHANGED <<events, now, pc, loc, fetches, batch, ids>>

NextScore ==
    \/ \E str1 \in TimeTexts, str2 \in TimeTexts : TimeSimilarityCall(str1, str2)
    \/ \E search_fields \in ScoreDicts, payload \in ScoreDicts :
           CalculateSimilarityCall(search_fields, payload)

SpecScore == Init /\ [][NextScore]_vars

\* The calls of the given function recorded so far.
ScoreCalls(op) == { i \in DOMAIN log : log[i].op = op }

\* The two dicts have the same value on every field they share, and share
\* at least one.
SameOnShared(a, b) ==
    /\ DOMAIN a \cap DOMAIN b # {}
    /\ \A key \in DOMAIN a \cap DOMAIN b : a[key] = b[key]

\* C18: _calculate_similarity returns a score in [0, 1], and exactly 1.0
\* when the payload has the same value as search_fields on every shared
\* field (text, identifier and time fields alike, at least one shared).
C18_ScoreInRangeAndOneOnEqual ==
    \A i \in ScoreCalls("calculate_similarity") :
        /\ log[i].ret # TypeError
        /\ RatLeq(Rat(0, 1), log[i].ret) /\ RatLeq(log[i].ret, Rat(1, 1))
        /\ SameOnShared(log[i].search_fields, log[i].payload)
              => RatEq(log[i].ret, Rat(1, 1))

\* C19 (as stated): a query with the fields {title} and a candidate with the
\* fields {title, time} exist whose score differs from the score with the
\* two in each other's role.
C19_AsymmetricPairExists ==
    ScoreCalls("calculate_similarity") # {} =>
        \E a \in TitleOnlyDicts, b \in TitleTimeDicts :
            ~RatEq(CalculateSimilarity(a, b), CalculateSimilarity(b, a))

\* C19 (amended): for every query with the fields {title} and candidate with
\* the fields {title, time}, the score is the same with the two in each
\* other's role (only the shared field title is scored either way).
C19_TitleScoreIsSymmetric ==
    \A i \in ScoreCalls("calculate_similarity") :
        (log[i].search_fields \in TitleOnlyDicts /\ log[i].payload \in TitleTimeDicts)
        => /\ RatEq(log[i].ret, log[i].swapped)
           /\ RatEq(log[i].ret,
                    IF Truthy(log[i].search_fields.title) /\ Truthy(log[i].payload.title)
                    THEN TextSimilarity(LowerStrip(log[i].search_fields.title),
                                        LowerStrip(log[i].payload.title))
                    ELSE Rat(0, 1))

\* C19 (witness): a {title} query was scored against a {title, time}
\* candidate with a different title, and the score is neither 0 nor 1.
C19_PartialMatchScored ==
    \E i \in ScoreCalls("calculate_similarity") :
        /\ log[i].search_fields \in TitleOnlyDicts
        /\ log[i].payload \in TitleTimeDicts
        /\ log[i].ret # TypeError
        /\ RatLt(Rat(0, 1), log[i].ret) /\ RatLt(log[i].ret, Rat(1, 1))

\* The score the breakpoints give for a difference of diff seconds.
BandScore(diff) ==
    CASE diff < 300 -> Rat(10, 10)
      [] diff >= 300 /\ diff < 900 -> Rat(9, 10)
      [] diff >= 900 /\ diff < 1800 -> Rat(7, 10)
      [] diff >= 1800 /\ diff < 3600 -> Rat(5, 10)
      [] diff >= 3600 /\ diff < 7200 -> Rat(3, 10)
      [] diff >= 7200 /\ diff < 86400 -> Rat(1, 10)
      [] diff >= 86400 -> Rat(0, 10)

\* Both texts parse, to datetimes that can be subtracted.
Subtractable(str1, str2) ==
    /\ IsIsoText(str1) /\ IsIsoText(str2)
    /\ DtFromIsoFormat(str1).aware = DtFromIsoFormat(str2).aware

\* C20: for two parseable timestamps d minutes apart _time_similarity
\* returns 1.0 (d < 5), 0.9 (< 15), 0.7 (< 30), 0.5 (< 60), 0.3 (< 120),
\* 0.1 (< 1440), 0.0 (d >= 1440), whatever the order of the arguments.
C20_TimeBands ==
    \A i \in ScoreCalls("time_similarity") :
        Subtractable(log[i].str1, log[i].str2) =>
            /\ log[i].ret # TypeError
            /\ RatEq(log[i].ret, BandScore(Abs(DtFromIsoFormat(log[i].str1).s
                                                - DtFromIsoFormat(log[i].str2).s)))
            /\ log[i].swapped = log[i].ret

\* C20 (witness): two timestamps exactly 5 minutes apart were scored 0.9.
C20_FiveMinutesApart ==
    \E i \in ScoreCalls("time_similarity") :
        /\ Subtractable(log[i].str1, log[i].str2)
        /\ Abs(DtFromIsoFormat(log[i].str1).s - DtFromIsoFormat(log[i].str2).s) = 300
        /\ RatEq(log[i].ret, Rat(9, 10))

-----------------------------------------------------------------------------
(* TemporalContext.get_time_range_for_type, over the proleptic Gregorian   *)
(* calendar.  A calendar datetime is [year, month, day, tod], tod being    *)
(* the time of day <<hour, minute, second, microsecond>>.  Days are also   *)
(* counted as ordinals, day 0 being Saturday 2022-01-01.                   *)

\* The reference days drawn: 2023-01-01 .. 2024-12-31 (2024 is a leap year).
FirstRefDay == 365
LastRefDay == 1095

IsLeap(year) == (year % 4 = 0 /\ year % 100 # 0) \/ year % 400 = 0

DaysInYear(year) == IF IsLeap(year) THEN 366 ELSE 365

DaysInMonth(year, month) ==
    IF month = 2 THEN (IF IsLeap(year) THEN 29 ELSE 28)
    ELSE IF month \in {4, 6, 9, 11} THEN 30
    ELSE 31

RECURSIVE DaysBeforeYear(_)
DaysBeforeYear(year) ==
    IF year <= 2022 THEN 0 ELSE DaysBeforeYear(year - 1) + DaysInYear(year - 1)

RECURSIVE DaysBeforeMonth(_, _)
DaysBeforeMonth(year, month) ==
    IF month <= 1 THEN 0
    ELSE DaysBeforeMonth(year, month - 1) + DaysInMonth(year, month - 1)

\* date.toordinal(), counted from 2022-01-01.
ToOrdinal(dt) == DaysBeforeYear(dt.year) + DaysBeforeMonth(dt.year, dt.month) + dt.day - 1

RECURSIVE DateInYear(_, _, _)
DateInYear(year, month, n) ==
    IF n < DaysInMonth(year, month)
    THEN [year |-> year, month |-> month, day |-> n + 1]
    ELSE DateInYear(year, month + 1, n - DaysInMonth(year, month))

RECURSIVE DateFrom(_, _)
DateFrom(year, n) ==
    IF n < DaysInYear(year) THEN DateInYear(year, 1, n)
    ELSE DateFrom(year + 1, n - DaysInYear(year))

\* date.fromordinal
FromOrdinal(n) == DateFrom(2022, n)

Midnight == <<0, 0, 0, 0>>

\* A calendar datetime.
CalDt(date, tod) ==
    [year |-> date.year, month |-> date.month, day |-> date.day, tod |-> tod]

\* datetime.weekday(): 0 = Monday.
Weekday(dt) == (ToOrdinal(dt) + 5) % 7

\* datetime + timedelta(days=n), n of either sign.
PlusDays(dt, n) == CalDt(FromOrdinal(ToOrdinal(dt) + n), dt.tod)

\* ref.replace(hour=0, minute=0, second=0, microsecond=0)
AtMidnight(dt) == [dt EXCEPT !.tod = Midnight]

\* Mutant of NextMonthStart: December is not rolled over to January.
NextMonthStartSameYear(ref) ==
    [year |-> ref.year, month |-> (ref.month % 12) + 1, day |-> 1, tod |-> Midnight]

\* The end of "this_month": the 1st of the next month, January of the next
\* year after December.
NextMonthStart(ref) ==
    IF ref.month = 12
    THEN [year |-> ref.year + 1, month |-> 1, day |-> 1, tod |-> Midnight]
    ELSE [year |-> ref.year, month |-> ref.month + 1, day |-> 1, tod |-> Midnight]

\* get_time_range_for_type(temporal_type, ref): <<start, end>>.
GetTimeRangeForType(temporal_type, ref) ==
    CASE temporal_type = "today" ->
            <<AtMidnight(ref), PlusDays(AtMidnight(ref), 1)>>
      [] temporal_type = "this_week" ->
            LET start == PlusDays(AtMidnight(ref), 0 - Weekday(ref))
            IN  <<start, PlusDays(start, 7)>>
      [] temporal_type = "this_month" ->
            <<[AtMidnight(ref) EXCEPT !.day = 1], NextMonthStart(ref)>>
      [] temporal_type = "this_year" ->
            <<[AtMidnight(ref) EXCEPT !.month = 1, !.day = 1],
              [year |-> ref.year + 1, month |-> 1, day |-> 1, tod |-> Midnight]>>
      [] OTHER ->
            <<AtMidnight(ref), PlusDays(AtMidnight(ref), 1)>>

\* Comparison of two times of day, and of two calendar datetimes.
TodLt(a, b) ==
    \E i \in 1..4 : a[i] < b[i] /\ \A j \in 1..(i - 1) : a[j] = b[j]
DtLt(a, b) ==
    \/ ToOrdinal(a) < ToOrdinal(b)
    \/ ToOrdinal(a) = ToOrdinal(b) /\ TodLt(a.tod, b.tod)
DtLeq(a, b) == a = b \/ DtLt(a, b)

-----------------------------------------------------------------------------
(* SpecRange: get_time_range_for_type applied to reference times.          *)

RangeTypes == {"today", "this_week", "this_month", "this_year"}

\* Times of day of the reference times: midnight, mid-morning, and the last
\* microsecond of the day.
RefTods == { Midnight, <<10, 0, 0, 0>>, <<23, 59, 59, 999999>> }

RefTimes == { CalDt(FromOrdinal(n), tod) : n \in FirstRefDay..LastRefDay, tod \in RefTods }

GetTimeRangeCall(temporal_type, ref) ==
    /\ Len(log) < 1
    /\ log' = Append(log, [op |-> "get_time_range_for_type", type |-> temporal_type,
                           ref |-> ref, ret |-> GetTimeRangeForType(temporal_type, ref)])
    /\ UNCHANGED <<events, now, pc, loc, fetches, batch, ids>>

NextRange ==
    \E temporal_type \in RangeTypes, ref \in RefTimes : GetTimeRangeCall(temporal_type, ref)

SpecRange == Init /\ [][NextRange]_vars

\* dt is 00:00 of the first day of the period of the given type: any day, a
\* Monday, the 1st of a month, 1 January.
IsPeriodStart(temporal_type, dt) ==
    /\ dt.tod = Midnight
    /\ temporal_type = "this_week" => Weekday(dt) = 0
    /\ temporal_type = "this_month" => dt.day = 1
    /\ temporal_type = "this_year" => dt.day = 1 /\ dt.month = 1

\* No period of the given type starts after start and at or before dt.
SamePeriod(temporal_type, start, dt) ==
    \A n \in (ToOrdinal(start) + 1)..ToOrdinal(dt) :
        ~IsPeriodStart(temporal_type, CalDt(FromOrdinal(n), Midnight))

\* C16: for each type in {today, this_week, this_month, this_year} the
\* range (start, end) has start <= ref < end, start is 00:00 of the first
\* day of the calendar period containing ref, and end is 00:00 of the first
\* day of the following period.
C16_RangeIsThePeriodOfRef ==
    \A i \in DOMAIN log :
        log[i].op = "get_time_range_for_type" =>
            LET start == log[i].ret[1]
                end == log[i].ret[2]
                ref == log[i].ref
                type == log[i].type
            IN  /\ DtLeq(start, ref) /\ DtLt(ref, end)
                /\ IsPeriodStart(type, start)
                /\ SamePeriod(type, start, ref)
                /\ IsPeriodStart(type, end)
                /\ SamePeriod(type, start, PlusDays(end, -1))
                /\ end.month \in 1..12 /\ end.day \in 1..DaysInMonth(end.year, end.month)

\* C16 (witness): this_month was asked for a December reference time and
\* the range ends on 1 January of the next year.
C16_DecemberRollsOver ==
    \E i \in DOMAIN log :
        /\ log[i].op = "get_time_range_for_type"
        /\ log[i].type = "this_month"
        /\ log[i].ref.month = 12
        /\ log[i].ret[2] = [year |-> log[i].ref.year + 1, month |-> 1, day |-> 1,
                            tod |-> Midnight]

-----------------------------------------------------------------------------
(* TemporalScheduler: reminders.                                           *)

MaxReminders == 2
MaxStatusEvents == 1

\* get_due_reminders: the candidates the search returns.
DueCandidates(evs, limit, t) ==
    RetrieveContext(evs,
                    <<"reminders", " ", "due", " ", "now", " ", "before", " ",
                      ToString(IsoFormat(t))>>,
                    limit, <<>>, {SCHEDULED_EVENT_KIND})

\* Whether `trigger_at <= now` raises for the memory: its trigger_at parses to
\* a naive datetime, and now is aware.
DueTestRaises(memory) ==
    /\ "trigger_at" \in DOMAIN memory.payload
    /\ ~DtFromIsoFormat(memory.payload.trigger_at).aware

\* Mutant of GetDueReminders: the candidates are returned unfiltered.
GetDueCandidatesOnly(evs, limit, t) ==
    LET memories == DueCandidates(evs, limit, t)
    IN  IF \E k \in DOMAIN memories : DueTestRaises(memories[k])
        THEN [raised |-> TRUE, ret |-> <<>>, candidates |-> Len(memories)]
        ELSE [raised |-> FALSE, ret |-> memories, candidates |-> Len(memories)]

\* get_due_reminders(limit) at time t: the candidates whose trigger_at is at
\* or before t; raises TypeError at a candidate with a naive trigger_at.
GetDueReminders(evs, limit, t) ==
    LET memories == DueCandidates(evs, limit, t)
    IN  IF \E k \in DOMAIN memories : DueTestRaises(memories[k])
        THEN [raised |-> TRUE, ret |-> <<>>, candidates |-> Len(memories)]
        ELSE [raised |-> FALSE,
              ret |-> SelectSeq(memories, LAMBDA memory :
                         /\ "trigger_at" \in DOMAIN memory.payload
                         /\ DtFromIsoFormat(memory.payload.trigger_at).s <= t),
              candidates |-> Len(memories)]

\* mark_reminder_sent: a reminder.sent event under the given context id.
MarkReminderSent(evs, reminder_context_id, t) ==
    StoreEvent(evs, <<"reminder", ".", "sent">>, reminder_context_id,
               [sent_at |-> IsoFormat(t), status |-> "sent"],
               <<>>, <<reminder_context_id>>, t)

\* cancel_reminder: a reminder.cancelled event under the given context id.
CancelReminder(evs, reminder_context_id, t) ==
    StoreEvent(evs, <<"reminder", ".", "cancelled">>, reminder_context_id,
               [cancelled_at |-> IsoFormat(t), status |-> "cancelled"],
               <<>>, <<reminder_context_id>>, t)

-----------------------------------------------------------------------------
(* SpecReminder: reminders are scheduled, fetched when due, marked sent    *)
(* and cancelled, while the clock advances.                                *)

\* Event times (seconds) and offsets (minutes) of the reminders scheduled:
\* the reminder times fall before, inside and after the clock's range.
EventTimes == {60, 62, 122}
MinuteOffsets == {1, 2}
EventDatetimes == { Aware(T) : T \in EventTimes } \cup { Naive(62) }

DueLimits == {1, 100}

\* The reminder.sent and reminder.cancelled events appended so far.
StatusEvents ==
    { k \in DOMAIN events :
        events[k].event_kind \in {<<"reminder", ".", "sent">>,
                                  <<"reminder", ".", "cancelled">>} }

\* The context ids of the reminders scheduled so far.
ReminderContexts ==
    { events[k].context_id : k \in { j \in DOMAIN events :
                                       events[j].event_kind = SCHEDULED_EVENT_KIND } }

ScheduleReminderCall(trigger_at, minutes) ==
    /\ Cardinality(ReminderContexts) < MaxReminders
    /\ Len(log) < MaxOps
    /\ events' = ScheduleReminder(events, "appointment", "a1", trigger_at, minutes,
                                  "u1", <<"Checkup">>, NewId(ids), now)
    /\ ids' = ids + 1
    /\ log' = Append(log, [op |-> "schedule_reminder", t |-> now,
                           trigger_at |-> trigger_at, minutes |-> minutes,
                           fresh |-> \A k \in DOMAIN events :
                               events[k].context_id
                                   # <<REMINDER_CONTEXT_PREFIX, ":", NewId(ids)>>,
                           ret |-> <<REMINDER_CONTEXT_PREFIX, ":", NewId(ids)>>])
    /\ UNCHANGED <<now, pc, loc, fetches, batch>>

GetDueRemindersCall(limit) ==
    /\ Len(log) < MaxOps
    /\ LET r == GetDueReminders(events, limit, now)
       IN  log' = Append(log, [op |-> "get_due_reminders", t |-> now, limit |-> limit,
                               raised |-> r.raised, ret |-> r.ret,
                               candidates |-> r.candidates])
    /\ UNCHANGED <<events, now, pc, loc, fetches, batch, ids>>

MarkReminderSentCall(reminder_context_id) ==
    /\ Cardinality(StatusEvents) < MaxStatusEvents
    /\ events' = MarkReminderSent(events, reminder_context_id, now)
    /\ UNCHANGED <<now, log, pc, loc, fetches, batch, ids>>

CancelReminderCall(reminder_context_id) ==
    /\ Cardinality(StatusEvents) < MaxStatusEvents
    /\ events' = CancelReminder(events, reminder_context_id, now)
    /\ UNCHANGED <<now, log, pc, loc, fetches, batch, ids>>

NextReminder ==
    \/ \E trigger_at \in EventDatetimes, minutes \in MinuteOffsets :
           ScheduleReminderCall(trigger_at, minutes)
    \/ \E limit \in DueLimits : GetDueRemindersCall(limit)
    \/ \E reminder_context_id \in ReminderContexts :
           MarkReminderSentCall(reminder_context_id)
    \/ \E reminder_context_id \in ReminderContexts :
           CancelReminderCall(reminder_context_id)
    \/ Tick

SpecReminder == Init /\ [][NextReminder]_vars

\* The recorded calls of the given operation.
CallsOf(op) == { i \in DOMAIN log : log[i].op = op }

\* C13: get_due_reminders returns no reminder whose trigger_at is later than
\* the time of the call, whatever candidates the search returned.
C13_NoReminderBeforeItsTime ==
    \A i \in CallsOf("get_due_reminders") :
        \A k \in DOMAIN log[i].ret :
            /\ DtFromIsoFormat(log[i].ret[k].payload.trigger_at).aware
            /\ DtFromIsoFormat(log[i].ret[k].payload.trigger_at).s <= log[i].t

\* C13 (witness): a call returned a due reminder and left out a candidate
\* that was not yet due.
C13_NotYetDueLeftOut ==
    \E i \in CallsOf("get_due_reminders") :
        /\ ~log[i].raised
        /\ Len(log[i].ret) >= 1
        /\ log[i].candidates > Len(log[i].ret)

\* The reminder of context ctx is among the memories.
Returned(ctx, memories) == \E k \in DOMAIN memories : memories[k].context_id = ctx

\* C14: a reminder scheduled for an event at T with m minutes is stored with
\* trigger_at = T - m in a context id no earlier event uses, is not returned
\* by get_due_reminders before T - m and is returned from T - m on (while
\* fewer than limit candidates exist).
C14_ReminderDueFromItsTime ==
    \A i \in CallsOf("schedule_reminder") :
        LET due == log[i].trigger_at.s - 60 * log[i].minutes
        IN  /\ log[i].fresh
            /\ \E k \in DOMAIN events :
                  /\ events[k].context_id = log[i].ret
                  /\ events[k].event_kind = SCHEDULED_EVENT_KIND
                  /\ DtFromIsoFormat(events[k].payload.trigger_at).s = due
            /\ \A j \in CallsOf("get_due_reminders") :
                  (j > i /\ log[j].candidates < log[j].limit) =>
                      IF log[j].t < due
                      THEN ~Returned(log[i].ret, log[j].ret)
                      ELSE ~log[j].raised /\ Returned(log[i].ret, log[j].ret)

-----------------------------------------------------------------------------
(* DuplicateDetector.detect_similar and the appointment detector.          *)

APPOINTMENT_DELETE == <<"appointment", ".", "delete">>

\* The "key:value" parts of the query, joined by spaces, over the fields with
\* a truthy value.  A timestamp text is one lexeme.
RECURSIVE QueryParts(_, _)
QueryParts(keys, search_fields) ==
    IF keys = {} THEN <<>>
    ELSE LET key == CHOOSE k \in keys : TRUE
             value == search_fields[key]
             text == IF IsIsoText(value) THEN <<ToString(value)>> ELSE value
             rest == QueryParts(keys \ {key}, search_fields)
         IN  IF ~Truthy(value) THEN rest
             ELSE <<key, ":">> \o text \o (IF rest = <<>> THEN <<>> ELSE <<" ">> \o rest)

\* f"{entity_type} user {user_id} " + " ".join(query_parts)
SimilarQuery(entity_type, user_id, search_fields) ==
    <<entity_type, " ", "user", " ", user_id, " ">>
    \o QueryParts(DOMAIN search_fields, search_fields)

\* payload.get("scheduled_at") or payload.get("created_at"); <<>> for None.
WindowTimeText(payload) ==
    IF "scheduled_at" \in DOMAIN payload /\ Truthy(payload.scheduled_at)
    THEN payload.scheduled_at
    ELSE IF "created_at" \in DOMAIN payload THEN payload.created_at
    ELSE <<>>

\* The time window test of detect_similar for one memory's time text:
\* "raise" when the text does not parse or now - scheduled_at mixes an aware
\* and a naive datetime, "skip" outside the window, else "pass".  time_window
\* is in seconds; 0 stands for None (and for the equally falsy timedelta(0)).
WindowVerdict(text, time_window, t) ==
    IF time_window = 0 \/ ~Truthy(text) THEN "pass"
    ELSE IF ~IsIsoText(text) THEN "raise"
    ELSE IF ~DtFromIsoFormat(text).aware THEN "raise"
    ELSE IF Abs(t - DtFromIsoFormat(text).s) > time_window THEN "skip"
    ELSE "pass"

\* The threshold test for a computed score: a TypeError of the scoring
\* propagates.
ScoreVerdict(similarity, similarity_threshold) ==
    IF similarity = TypeError THEN [verdict |-> "raise", similarity |-> Rat(0, 1)]
    ELSE IF RatLeq(similarity_threshold, similarity)
    THEN [verdict |-> "keep", similarity |-> similarity]
    ELSE [verdict |-> "skip", similarity |-> similarity]

\* What the loop of detect_similar does with one memory: "skip" it (another
\* user's, outside the time window, or below the threshold), "raise", or
\* "keep" it with its score.
MemoryVerdict(memory, user_id, search_fields, similarity_threshold, time_window, t) ==
    IF "user_id" \notin DOMAIN memory.payload
    THEN [verdict |-> "skip", similarity |-> Rat(0, 1)]
    ELSE IF memory.payload.user_id # user_id
    THEN [verdict |-> "skip", similarity |-> Rat(0, 1)]
    ELSE IF WindowVerdict(WindowTimeText(memory.payload), time_window, t) # "pass"
    THEN [verdict |-> WindowVerdict(WindowTimeText(memory.payload), time_window, t),
          similarity |-> Rat(0, 1)]
    ELSE ScoreVerdict(CalculateSimilarity(search_fields, memory.payload),
                      similarity_threshold)

\* list.sort(key=similarity, reverse=True): descending and stable.
RECURSIVE SortBySimilarity(_)
SortBySimilarity(entities) ==
    IF entities = <<>> THEN <<>>
    ELSE LET k == CHOOSE i \in DOMAIN entities :
                    /\ \A j \in DOMAIN entities :
                          RatLeq(entities[j].similarity, entities[i].similarity)
                    /\ \A j \in 1..(i - 1) :
                          RatLt(entities[j].similarity, entities[i].similarity)
         IN  <<entities[k]>>
             \o SortBySimilarity(SubSeq(entities, 1, k - 1)
                                 \o SubSeq(entities, k + 1, Len(entities)))

\* The loop and the sort of detect_similar over the memories found:
\* [raised, ret], ret being the kept memories with their scores, best first.
SimilarAmong(memories, user_id, search_fields, similarity_threshold, time_window, t) ==
    LET verdicts == [k \in DOMAIN memories |->
                        [memory |-> memories[k]]
                        @@ MemoryVerdict(memories[k], user_id, search_fields,
                                         similarity_threshold, time_window, t)]
    IN  IF \E k \in DOMAIN verdicts : verdicts[k].verdict = "raise"
        THEN [raised |-> TRUE, ret |-> <<>>]
        ELSE [raised |-> FALSE,
              ret |-> SortBySimilarity(
                          SelectSeq(verdicts, LAMBDA m : m.verdict = "keep"))]

\* detect_similar at time t.
DetectSimilar(evs, entity_type, user_id, search_fields, similarity_threshold, time_window, limit, t) ==
    SimilarAmong(RetrieveContext(evs, SimilarQuery(entity_type, user_id, search_fields),
                                 limit, <<>>, {}),
                 user_id, search_fields, similarity_threshold, time_window, t)

\* The most similar entity if its score is above 0.9: <<memory>>, or <<>>
\* for None.
VerySimilar(similar) ==
    IF similar.raised THEN [raised |-> TRUE, ret |-> <<>>]
    ELSE IF similar.ret # <<>> /\ RatLt(Rat(9, 10), similar.ret[1].similarity)
    THEN [raised |-> FALSE, ret |-> <<similar.ret[1].memory>>]
    ELSE [raised |-> FALSE, ret |-> <<>>]

\* AppointmentDuplicateDetector.detect_duplicates (doctor_name and location
\* not given): [raised, ret].
DetectDuplicates(evs, title, scheduled_at, user_id, time_window_minutes, t) ==
    VerySimilar(DetectSimilar(evs, "appointment", user_id,
                              [title |-> title,
                               scheduled_at |-> DtIsoFormat(scheduled_at)],
                              Rat(8, 10), 60 * time_window_minutes, 10, t))

-----------------------------------------------------------------------------
(* get_temporal_contexts                                                   *)

\* TemporalContext.get_temporal_query without time_window.
GetTemporalQuery(temporal_type, user_id) ==
    <<temporal_type, " ", "items", " ", "user", " ", user_id>>

\* payload.get("scheduled_at") or payload.get("trigger_at") or
\* payload.get("timestamp"); <<>> for None.
TemporalTimeText(payload) ==
    IF "scheduled_at" \in DOMAIN payload /\ Truthy(payload.scheduled_at)
    THEN payload.scheduled_at
    ELSE IF "trigger_at" \in DOMAIN payload /\ Truthy(payload.trigger_at)
    THEN payload.trigger_at
    ELSE IF "timestamp" \in DOMAIN payload THEN payload.timestamp
    ELSE <<>>

\* The calendar day of a clock value.
DayOf(t) == t \div 86400

\* The temporal type filter for one memory at time t: TRUE, FALSE or "raise"
\* is returned as [raised, include].  A missing time is None, which the
\* comparisons and .date() reject; a naive time cannot be compared with the
\* aware now; an unknown type includes nothing.
TypeFilter(temporal_type, text, t) ==
    LET known == temporal_type \in {"upcoming", "past", "today", "due"}
        dt == DtFromIsoFormat(text)
    IN  IF Truthy(text) /\ ~IsIsoText(text) THEN [raised |-> TRUE, include |-> FALSE]
        ELSE IF ~known THEN [raised |-> FALSE, include |-> FALSE]
        ELSE IF ~Truthy(text) THEN [raised |-> TRUE, include |-> FALSE]
        ELSE IF temporal_type = "today"
        THEN [raised |-> FALSE, include |-> DayOf(dt.s) = DayOf(t)]
        ELSE IF ~dt.aware THEN [raised |-> TRUE, include |-> FALSE]
        ELSE [raised |-> FALSE,
              include |-> CASE temporal_type = "upcoming" -> dt.s > t
                            [] temporal_type = "past" -> dt.s < t
                            [] temporal_type = "due" -> dt.s <= t]

\* start <= scheduled_at <= end, evaluated left to right: comparing an aware
\* with a naive datetime raises.
InRange(time_range, dt) ==
    IF dt.aware # time_range[1].aware THEN [raised |-> TRUE, include |-> FALSE]
    ELSE IF ~(time_range[1].s <= dt.s) THEN [raised |-> FALSE, include |-> FALSE]
    ELSE IF dt.aware # time_range[2].aware THEN [raised |-> TRUE, include |-> FALSE]
    ELSE [raised |-> FALSE, include |-> dt.s <= time_range[2].s]

\* The filter of get_temporal_contexts for one memory; time_range is <<>> for
\* None, else <<start, end>>.
TemporalVerdict(memory, temporal_type, time_range, t) ==
    LET text == TemporalTimeText(memory.payload)
        byType == TypeFilter(temporal_type, text, t)
    IN  IF byType.raised \/ ~byType.include \/ time_range = <<>> THEN byType
        ELSE InRange(time_range, DtFromIsoFormat(text))

\* get_temporal_contexts at time t: [raised, ret].
GetTemporalContexts(evs, user_id, temporal_type, time_range, limit, t) ==
    LET memories == RetrieveContext(evs, GetTemporalQuery(temporal_type, user_id),
                                    limit, <<>>, {})
    IN  IF \E k \in DOMAIN memories :
               TemporalVerdict(memories[k], temporal_type, time_range, t).raised
        THEN [raised |-> TRUE, ret |-> <<>>]
        ELSE [raised |-> FALSE,
              ret |-> SelectSeq(memories, LAMBDA memory :
                         TemporalVerdict(memory, temporal_type, time_range, t).include)]

-----------------------------------------------------------------------------
(* SpecAppt: the appointment routes (create, delete) and                   *)
(* get_temporal_contexts, called one after another while the clock         *)
(* advances.                                                               *)

MaxAppointments == 2
MaxDeletions == 1
MaxMinutes == 1

\* AppointmentEventDefinition.create_payload for the route's arguments; the
\* fields left at None (doctor_name, location, notes) are not carried.
\* minutes = 0 stands for reminder_minutes_before = None.
AppointmentPayload(title, scheduled_at, minutes, user_id) ==
    [title |-> title,
     scheduled_at |-> JsonDatetime(scheduled_at),
     reminder_minutes_before |-> IF minutes = 0 THEN None ELSE ToString(minutes),
     user_id |-> user_id]

\* The events of the given kind.
EventsOfKind(kind) == { k \in DOMAIN events : events[k].event_kind = kind }

\* create_appointment: the duplicate check (a raise of the detector ends the
\* request with 500, a duplicate with 409), then the appointment event, the
\* reminder when reminder_minutes_before is truthy, and the cache
\* invalidation.  The response is built from the local scheduled_at, which is
\* bound only on the reminder branch: without a reminder the request ends
\* with 500 after the event was stored.
CreateAppointment(user_id, title, scheduled_at, minutes) ==
    /\ Len(log) < MaxOps
    /\ Cardinality(EventsOfKind(APPOINTMENT_CREATE)) < MaxAppointments
    /\ \E duplicate \in {DetectDuplicates(events, title, scheduled_at, user_id, 30, now)} :
       LET appointment_id == NewId(ids)
           context_id == EntityContext("appointment", appointment_id)
           stored == StoreEvent(events, APPOINTMENT_CREATE, context_id,
                                AppointmentPayload(title, scheduled_at, minutes, user_id),
                                <<>>, <<>>, now)
           reminded == IF minutes # 0
                       THEN ScheduleReminder(stored, "appointment", appointment_id,
                                             scheduled_at, minutes, user_id,
                                             <<"Appointment", ":", " ">> \o title,
                                             NewId(ids + 1), now)
                       ELSE stored
           entry == [op |-> "create_appointment", t |-> now, user_id |-> user_id,
                     title |-> title, scheduled_at |-> scheduled_at,
                     minutes |-> minutes]
       IN  IF duplicate.raised
           THEN /\ log' = Append(log, entry @@ [status |-> 500, id |-> None,
                                                reminder |-> <<>>])
                /\ UNCHANGED <<events, ids>>
           ELSE IF duplicate.ret # <<>>
           THEN /\ log' = Append(log, entry @@ [status |-> 409, id |-> None,
                                                reminder |-> <<>>])
                /\ UNCHANGED <<events, ids>>
           ELSE /\ events' = InvalidatePattern(reminded,
                                 UserPattern(AppointmentCache_CACHE_KEY, user_id), now)
                /\ ids' = IF minutes # 0 THEN ids + 2 ELSE ids + 1
                /\ log' = Append(log, entry @@
                              [status |-> IF minutes # 0 THEN 201 ELSE 500,
                               id |-> appointment_id,
                               reminder |-> IF minutes # 0
                                            THEN <<REMINDER_CONTEXT_PREFIX, ":",
                                                   NewId(ids + 1)>>
                                            ELSE <<>>])
    /\ UNCHANGED <<now, pc, loc, fetches, batch>>

\* delete_appointment: 404 when the appointment's context holds no event,
\* 403 when its first event belongs to another user; else the reminder
\* context named after the appointment id is cancelled, the deletion event
\* stored and the user's cache invalidated.
DeleteAppointment(user_id, appointment_id) ==
    /\ Len(log) < MaxOps
    /\ Cardinality(EventsOfKind(APPOINTMENT_DELETE)) < MaxDeletions
    /\ LET context_id == EntityContext("appointment", appointment_id)
           memories == RetrieveContext(events, <<"appointment", " ", appointment_id>>,
                                       1, <<context_id>>, {})
           cancelled == CancelReminder(events,
                            <<REMINDER_CONTEXT_PREFIX, ":", appointment_id>>, now)
           deleted == StoreEvent(cancelled, APPOINTMENT_DELETE, context_id,
                                 [deleted |-> TRUE, appointment_id |-> appointment_id,
                                  user_id |-> user_id],
                                 <<>>, <<>>, now)
           entry == [op |-> "delete_appointment", t |-> now, user_id |-> user_id,
                     id |-> appointment_id]
       IN  IF memories = <<>>
           THEN /\ log' = Append(log, entry @@ [status |-> 404])
                /\ UNCHANGED events
           ELSE IF "user_id" \notin DOMAIN memories[1].payload
                   \/ memories[1].payload.user_id # user_id
           THEN /\ log' = Append(log, entry @@ [status |-> 403])
                /\ UNCHANGED events
           ELSE /\ events' = InvalidatePattern(deleted,
                                 UserPattern(AppointmentCache_CACHE_KEY, user_id), now)
                /\ log' = Append(log, entry @@ [status |-> 204])
    /\ UNCHANGED <<now, pc, loc, fetches, batch, ids>>

\* get_temporal_contexts is called.
GetTemporalContextsCall(user_id, temporal_type, time_range, limit) ==
    /\ Len(log) < MaxOps
    /\ LET r == GetTemporalContexts(events, user_id, temporal_type, time_range,
                                    limit, now)
       IN  log' = Append(log, [op |-> "get_temporal_contexts", t |-> now,
                               user_id |-> user_id, temporal_type |-> temporal_type,
                               time_range |-> time_range, limit |-> limit,
                               raised |-> r.raised, ret |-> r.ret])
    /\ UNCHANGED <<events, now, pc, loc, fetches, batch, ids>>

\* Inputs: an appointment time after the clock's range, as an aware UTC, an
\* aware non-UTC and a naive datetime (with one minute of notice the reminder
\* falls due when the clock advances); no window, and a window ending at the
\* appointment time.
ApptTitles == { <<"Checkup">> }
ApptDatetimes == { Aware(120), Offset(120), Naive(120) }
ApptMinutes == {0, 1}
TemporalTypes == {"upcoming", "due", "today"}
TimeRanges == { <<>>, <<Aware(0), Aware(120)>> }
TemporalLimits == {50}

\* The clock advances by one minute.
TickMinute ==
    /\ now < 60 * MaxMinutes
    /\ now' = now + 60
    /\ UNCHANGED <<events, log, pc, loc, fetches, batch, ids>>

\* The identifiers handed out so far, and one that was never handed out.
KnownIds == { NewId(n) : n \in 0..(ids - 1) } \cup { "missing" }

NextAppt ==
    \/ \E title \in ApptTitles, scheduled_at \in ApptDatetimes,
          minutes \in ApptMinutes :
           CreateAppointment("u1", title, scheduled_at, minutes)
    \/ \E user_id \in Users, appointment_id \in KnownIds :
           DeleteAppointment(user_id, appointment_id)
    \/ \E temporal_type \in TemporalTypes, time_range \in TimeRanges,
          limit \in TemporalLimits :
           GetTemporalContextsCall("u1", temporal_type, time_range, limit)
    \/ TickMinute

SpecAppt == Init /\ [][NextAppt]_vars

\* The memory's event time, as get_temporal_contexts reads it.
EventTime(memory) == DtFromIsoFormat(TemporalTimeText(memory.payload))

\* C15: after create_appointment with reminder_minutes_before set and a
\* successful delete_appointment of that appointment, a reminder.cancelled
\* event exists under the context id in which schedule_reminder stored the
\* appointment's reminder.
C15_DeleteCancelsReminder ==
    \A i \in CallsOf("create_appointment"), j \in CallsOf("delete_appointment") :
        (/\ i < j
         /\ log[i].reminder # <<>>
         /\ log[j].id = log[i].id
         /\ log[j].status = 204)
        => \E k \in EventsOfKind(<<"reminder", ".", "cancelled">>) :
               events[k].context_id = log[i].reminder

\* C17: with time_range = (start, end), every event returned by
\* get_temporal_contexts has start <= event time < end.
C17_WindowIsHalfOpen ==
    \A i \in CallsOf("get_temporal_contexts") :
        log[i].time_range # <<>> =>
            \A k \in DOMAIN log[i].ret :
                /\ log[i].time_range[1].s <= EventTime(log[i].ret[k]).s
                /\ EventTime(log[i].ret[k]).s < log[i].time_range[2].s

-----------------------------------------------------------------------------
(* SpecDetect: appointment events are stored, then detect_similar is       *)
(* called on the store.                                                    *)

MaxCandidates == 3

\* Stored appointments: two owners, an equal and a containing title, times
\* inside and outside the window as pydantic dumps them (UTC as "Z", another
\* offset, naive).
CandidateTitles == { <<"Checkup">>, <<"dental", " ", "checkup">> }
CandidateDatetimes == { Offset(0), Offset(600), Offset(7200), Naive(0) }

\* Search inputs.
SearchTitles == { <<"Checkup">> }
SearchDatetimes == { Offset(0), Naive(0) }
Thresholds == { Rat(7, 10), Rat(95, 100) }
TimeWindows == { 0, 1800 }

\* locusgraph_service.store_event with an appointment payload.
StoreAppointmentCall(user_id, title, scheduled_at) ==
    /\ log = <<>>
    /\ Len(events) < MaxCandidates
    /\ events' = StoreEvent(events, APPOINTMENT_CREATE,
                            EntityContext("appointment", NewId(ids)),
                            AppointmentPayload(title, scheduled_at, 0, user_id),
                            <<>>, <<>>, now)
    /\ ids' = ids + 1
    /\ UNCHANGED <<now, log, pc, loc, fetches, batch>>

\* detect_similar is called; the candidates the search returned are recorded
\* with the result.
DetectSimilarCall(user_id, search_fields, similarity_threshold, time_window) ==
    /\ Len(log) < 1
    /\ \E r \in {DetectSimilar(events, "appointment", user_id, search_fields,
                               similarity_threshold, time_window, 10, now)} :
         log' = Append(log, [op |-> "detect_similar", t |-> now, user_id |-> user_id,
                             search_fields |-> search_fields,
                             similarity_threshold |-> similarity_threshold,
                             time_window |-> time_window,
                             candidates |-> RetrieveContext(events,
                                 SimilarQuery("appointment", user_id, search_fields),
                                 10, <<>>, {}),
                             raised |-> r.raised, ret |-> r.ret])
    /\ UNCHANGED <<events, now, pc, loc, fetches, batch, ids>>

NextDetect ==
    \/ \E user_id \in Users, title \in CandidateTitles,
          scheduled_at \in CandidateDatetimes :
           StoreAppointmentCall(user_id, title, scheduled_at)
    \/ \E user_id \in Users, title \in SearchTitles, scheduled_at \in SearchDatetimes,
          similarity_threshold \in Thresholds, time_window \in TimeWindows :
           DetectSimilarCall(user_id,
                             [title |-> title, scheduled_at |-> DtIsoFormat(scheduled_at)],
                             similarity_threshold, time_window)

SpecDetect == Init /\ [][NextDetect]_vars

\* The candidate is one detect_similar has to return for the recorded call:
\* it belongs to the user, lies within the time window (when one is given)
\* and scores at least the threshold.
MeetsConditions(call, memory) ==
    /\ memory.payload.user_id = call.user_id
    /\ call.time_window # 0 =>
           Abs(call.t - DtFromIsoFormat(memory.payload.scheduled_at).s) <= call.time_window
    /\ CalculateSimilarity(call.search_fields, memory.payload) # TypeError
    /\ RatLeq(call.similarity_threshold,
              CalculateSimilarity(call.search_fields, memory.payload))

\* C21: every entry detect_similar returns belongs to the requested user and
\* scores at least the threshold, every candidate meeting both conditions
\* and the time window is returned, and the result is ordered by similarity
\* non-increasing.
C21_DetectSimilarFiltersAndSorts ==
    \A i \in CallsOf("detect_similar") :
        /\ \A k \in DOMAIN log[i].ret :
              /\ log[i].ret[k].memory.payload.user_id = log[i].user_id
              /\ RatLeq(log[i].similarity_threshold, log[i].ret[k].similarity)
        /\ \A c \in DOMAIN log[i].candidates :
              MeetsConditions(log[i], log[i].candidates[c]) =>
                  \E k \in DOMAIN log[i].ret :
                      log[i].ret[k].memory = log[i].candidates[c]
        /\ \A k \in 1..(Len(log[i].ret) - 1) :
              RatLeq(log[i].ret[k + 1].similarity, log[i].ret[k].similarity)

-----------------------------------------------------------------------------
(* SpecMeditation: create_session called one after another.                *)

MeditationSessionCache_CACHE_KEY == <<"meditation_sessions">>

\* The most similar entity if its score is at least 0.95: <<memory>>, or <<>>
\* for None.
NearExact(similar) ==
    IF similar.raised THEN [raised |-> TRUE, ret |-> <<>>]
    ELSE IF similar.ret # <<>> /\ RatLeq(Rat(95, 100), similar.ret[1].similarity)
    THEN [raised |-> FALSE, ret |-> <<similar.ret[1].memory>>]
    ELSE [raised |-> FALSE, ret |-> <<>>]

\* The search fields of the meditation detector: the category only if truthy.
SessionSearchFields(title, category) ==
    IF Truthy(category) THEN [title |-> title, category |-> category]
    ELSE [title |-> title]

\* MeditationSessionDuplicateDetector.detect_duplicate: detect_similar for
\* the user "system", threshold 0.95, no time window.
MeditationDetectDuplicate(evs, title, category, limit, t) ==
    NearExact(DetectSimilar(evs, "meditation_session", "system",
                            SessionSearchFields(title, category),
                            Rat(95, 100), 0, limit, t))

\* MeditationSessionCache.invalidate_sessions
InvalidateSessions(evs, category, t) ==
    IF Truthy(category)
    THEN CacheInvalidate(evs, MeditationSessionCache_CACHE_KEY,
                         [category |-> category], t)
    ELSE InvalidatePattern(evs, MeditationSessionCache_CACHE_KEY \o <<":", "*">>, t)

\* create_session without audio_url: 409 when the detector returns a
\* duplicate, else the session event is stored and the cache invalidated.
CreateSession(title, category) ==
    /\ Len(log) < MaxOps
    /\ \E duplicate \in {MeditationDetectDuplicate(events, title, category, 10, now)} :
       LET session_id == NewId(ids)
           stored == StoreEvent(events, MEDITATION_SESSION_CREATE,
                                EntityContext("meditation_session", session_id),
                                CreatePayload("meditation_session",
                                              [title |-> title, category |-> category],
                                              FALSE, None),
                                <<>>, <<>>, now)
           entry == [op |-> "create_session", t |-> now, title |-> title,
                     category |-> category,
                     candidates |-> RetrieveContext(events,
                         SimilarQuery("meditation_session", "system",
                                      SessionSearchFields(title, category)),
                         10, <<>>, {})]
       IN  IF duplicate.raised
           THEN /\ log' = Append(log, entry @@ [status |-> 500, id |-> None])
                /\ UNCHANGED <<events, ids>>
           ELSE IF duplicate.ret # <<>>
           THEN /\ log' = Append(log, entry @@ [status |-> 409, id |-> None])
                /\ UNCHANGED <<events, ids>>
           ELSE /\ events' = InvalidateSessions(stored, category, now)
                /\ ids' = ids + 1
                /\ log' = Append(log, entry @@ [status |-> 201, id |-> session_id])
    /\ UNCHANGED <<now, pc, loc, fetches, batch>>

SessionTitles == { <<"Calm">>, <<"Deep", " ", "calm">> }
SessionCategories == { <<>>, <<"sleep">>, <<"focus">> }

NextMeditation ==
    \/ \E title \in SessionTitles, category \in SessionCategories :
           CreateSession(title, category)
    \/ TickMinute

SpecMeditation == Init /\ [][NextMeditation]_vars

\* C22: create_session rejects a second session whose title and category
\* equal those of a stored session that the search returns as a candidate.
C22_SecondSessionRejected ==
    \A i \in CallsOf("create_session"), j \in CallsOf("create_session") :
        (/\ i < j
         /\ log[i].status = 201
         /\ log[j].title = log[i].title
         /\ log[j].category = log[i].category
         /\ \E c \in DOMAIN log[j].candidates :
                log[j].candidates[c].context_id
                    = EntityContext("meditation_session", log[i].id))
        => log[j].status = 409

-----------------------------------------------------------------------------
(* ValidationMemory                                                        *)

VALIDATION_FAILED_EVENT_KIND == <<"validation", ".", "failed">>
VALIDATION_PASSED_EVENT_KIND == <<"validation", ".", "passed">>
PATTERN_CONTEXT_PREFIX == "validation_pattern"

\* The position of the first lexeme equal to sep at or after i; Len + 1 when
\* there is none.
RECURSIVE FindFrom(_, _, _)
FindFrom(text, sep, i) ==
    IF i > Len(text) THEN Len(text) + 1
    ELSE IF text[i] = sep THEN i
    ELSE FindFrom(text, sep, i + 1)

\* text.split(sep)[1] for a text holding sep: what lies between the first
\* and the second separator.
SecondPart(text, sep) ==
    LET first == FindFrom(text, sep, 1)
    IN  SubSeq(text, first + 1, FindFrom(text, sep, first + 1) - 1)

\* text.split(sep)[0]
FirstPart(text, sep) == SubSeq(text, 1, FindFrom(text, sep, 1) - 1)

\* re.sub(r"[^0-9+]", "", value): the digits and "+" of the value.
Cleaned(value) ==
    SelectSeq(value, LAMBDA c :
        c \in {"0", "1", "2", "3", "4", "5", "6", "7", "8", "9", "+"})

\* _extract_pattern for the url and phone error types (a value is a sequence
\* of lexemes, a phone number one of characters; the 50-character cut of a
\* url without protocol keeps the short values used here whole).
ExtractPattern(value, error_type) ==
    IF ~Truthy(value) THEN <<"empty">>
    ELSE IF error_type \in {"invalid_url", "url"}
    THEN (IF FindFrom(Strip(Lower(value)), "://", 1) <= Len(Strip(Lower(value)))
          THEN <<"domain", ":">>
               \o FirstPart(SecondPart(Strip(Lower(value)), "://"), "/")
          ELSE <<"no_protocol", ":">> \o Strip(Lower(value)))
    ELSE IF Cleaned(value) # <<>> /\ Cleaned(value)[1] = "+"
    THEN <<"international", ":">> \o Take(Cleaned(value), 4)
    ELSE <<"domestic", ":">> \o Take(Cleaned(value), 3)

\* f"{PATTERN_CONTEXT_PREFIX}:{error_type}:{pattern}"
PatternContext(error_type, pattern) ==
    <<PATTERN_CONTEXT_PREFIX, ":", error_type, ":">> \o pattern

\* remember_failure: a validation.failed event under the pattern context
\* (whether or not the context already holds one; the two branches differ
\* only in the reinforces link, which nothing reads).
RememberFailure(evs, error_type, value, error_message, user_id, t) ==
    StoreEvent(evs, VALIDATION_FAILED_EVENT_KIND,
               PatternContext(error_type, ExtractPattern(value, error_type)),
               [error_type |-> error_type, value |-> value,
                pattern |-> ExtractPattern(value, error_type),
                error_message |-> error_message, user_id |-> user_id,
                failed_at |-> IsoFormat(t)],
               <<>>, <<>>, t)

\* remember_success: a validation.passed event under the pattern context.
RememberSuccess(evs, error_type, value, user_id, t) ==
    StoreEvent(evs, VALIDATION_PASSED_EVENT_KIND,
               PatternContext(error_type, ExtractPattern(value, error_type)),
               [validation_type |-> error_type, value |-> value,
                pattern |-> ExtractPattern(value, error_type),
                user_id |-> user_id, validated_at |-> IsoFormat(t)],
               <<>>, <<>>, t)

\* The query of check_known_failures.
FailureQuery(error_type, pattern, user_id) ==
    <<"validation", " ", "failed", " ", error_type, " ", "pattern", " ">> \o pattern
    \o (IF user_id = None THEN <<>> ELSE <<" ", "user", " ", user_id>>)

\* The first memory with a failed_at within the window: <<memory>>, or <<>>
\* for None.
FirstRecent(memories, window, t) ==
    LET recent == SelectSeq(memories, LAMBDA memory :
                      /\ "failed_at" \in DOMAIN memory.payload
                      /\ t - FromIsoFormat(memory.payload.failed_at) <= window)
    IN  IF recent = <<>> THEN <<>> ELSE <<recent[1]>>

\* check_known_failures: the first of the (at most 5) oldest events of the
\* pattern context whose failed_at lies within the tolerance window.
CheckKnownFailures(evs, value, error_type, user_id, tolerance_window_hours, t) ==
    FirstRecent(RetrieveContext(evs,
                    FailureQuery(error_type, ExtractPattern(value, error_type), user_id),
                    5,
                    <<PatternContext(error_type, ExtractPattern(value, error_type))>>,
                    {}),
                3600 * tolerance_window_hours, t)

-----------------------------------------------------------------------------
(* SpecValidation: url failures are remembered and looked up while the     *)
(* clock advances by half days.                                            *)

MaxFailures == 6
MaxHalfDays == 3

\* URLs of one scheme and domain: with a path, and with a query and no path.
UrlA == <<"https", "://", "good.com", "/", "a">>
UrlB == <<"https", "://", "Good.com", "/", "b">>
UrlQuery == <<"https", "://", "good.com", "?", "x">>

RememberFailureCall(value) ==
    /\ log = <<>>
    /\ Len(events) < MaxFailures
    /\ events' = RememberFailure(events, "invalid_url", value,
                                 <<"unreachable">>, None, now)
    /\ UNCHANGED <<now, log, pc, loc, fetches, batch, ids>>

CheckKnownFailuresCall(value) ==
    /\ Len(log) < 1
    /\ log' = Append(log, [op |-> "check_known_failures", t |-> now, value |-> value,
                           stored |-> Len(events),
                           ret |-> CheckKnownFailures(events, value, "invalid_url",
                                                      None, 24, now)])
    /\ UNCHANGED <<events, now, pc, loc, fetches, batch, ids>>

TickHalfDay ==
    /\ now < 43200 * MaxHalfDays
    /\ now' = now + 43200
    /\ UNCHANGED <<events, log, pc, loc, fetches, batch, ids>>

NextValidation ==
    \/ \E value \in {UrlA, UrlQuery} : RememberFailureCall(value)
    \/ \E value \in {UrlA, UrlB} : CheckKnownFailuresCall(value)
    \/ TickHalfDay

SpecValidation == Init /\ [][NextValidation]_vars

\* The scheme and domain of a URL, lower-cased.
SchemeAndDomain(url) == Lower(SubSeq(url, 1, 3))

\* The failures remembered before the recorded call for a URL of the same
\* scheme and domain, within the last 24 hours.
RecentFailures(call) ==
    { k \in 1..call.stored :
        /\ events[k].event_kind = VALIDATION_FAILED_EVENT_KIND
        /\ SchemeAndDomain(events[k].payload.value) = SchemeAndDomain(call.value)
        /\ call.t - FromIsoFormat(events[k].payload.failed_at) <= 24 * 3600 }

\* C24: check_known_failures for a URL returns a failure remembered for a URL
\* of the same scheme-qualified domain while one lies within the 24 hour
\* window, and none once the window has passed for all of them.
C24_SameDomainFailureFound ==
    \A i \in CallsOf("check_known_failures") :
        IF RecentFailures(log[i]) # {}
        THEN \E k \in RecentFailures(log[i]) : log[i].ret = <<events[k]>>
        ELSE log[i].ret = <<>>

-----------------------------------------------------------------------------
(* Emergency contacts: create_emergency_contact and what it calls.         *)

EMERGENCY_CONTACT_UPDATE == <<"emergency_contact", ".", "update">>

\* PhoneValidator.validate: [valid, evs].  A known failure of the pattern
\* rejects the phone; an empty phone or one with fewer than 10 digits is
\* remembered as a failure and rejected.
PhoneValidate(evs, phone, user_id, t) ==
    IF CheckKnownFailures(evs, phone, "invalid_phone", user_id, 24, t) # <<>>
    THEN [valid |-> FALSE, evs |-> evs]
    ELSE IF ~Truthy(phone)
    THEN [valid |-> FALSE,
          evs |-> RememberFailure(evs, "invalid_phone", <<>>,
                                  <<"Phone", " ", "is", " ", "empty">>, user_id, t)]
    ELSE IF Len(Cleaned(phone)) < 10
    THEN [valid |-> FALSE,
          evs |-> RememberFailure(evs, "invalid_phone", phone,
                                  <<"Phone", " ", "number", " ", "too", " ", "short">>,
                                  user_id, t)]
    ELSE [valid |-> TRUE, evs |-> evs]

\* The loop of detect_exact_duplicate: the first memory of the user whose
\* identifier fields all equal the expected values: <<memory>>, or <<>> for
\* None.
FirstExact(memories, user_id, identifier_fields) ==
    LET exact == SelectSeq(memories, LAMBDA memory :
                     /\ "user_id" \in DOMAIN memory.payload
                     /\ memory.payload.user_id = user_id
                     /\ \A key \in DOMAIN identifier_fields :
                           /\ key \in DOMAIN memory.payload
                           /\ memory.payload[key] = identifier_fields[key])
    IN  IF exact = <<>> THEN <<>> ELSE <<exact[1]>>

\* detect_exact_duplicate: among the first 10 events the query finds.
DetectExactDuplicate(evs, entity_type, user_id, identifier_fields) ==
    FirstExact(RetrieveContext(evs, SimilarQuery(entity_type, user_id, identifier_fields),
                               10, <<>>, {}),
               user_id, identifier_fields)

\* The most similar entity if its score is above 0.95: <<memory>>, or <<>>
\* for None.
AlmostSame(similar) ==
    IF similar.ret # <<>> /\ RatLt(Rat(95, 100), similar.ret[1].similarity)
    THEN <<similar.ret[1].memory>>
    ELSE <<>>

\* EmergencyContactDuplicateDetector.detect_duplicate: the exact match by
\* phone, else (a name given) a contact of almost the same name.
ContactDetectDuplicate(evs, phone, user_id, name, t) ==
    IF DetectExactDuplicate(evs, "emergency_contact", user_id, [phone |-> phone]) # <<>>
    THEN DetectExactDuplicate(evs, "emergency_contact", user_id, [phone |-> phone])
    ELSE IF Truthy(name)
    THEN AlmostSame(DetectSimilar(evs, "emergency_contact", user_id, [name |-> name],
                                  Rat(9, 10), 0, 10, t))
    ELSE <<>>

\* The loop of check_primary_contact_exists.
FirstPrimary(memories, user_id) ==
    LET primary == SelectSeq(memories, LAMBDA memory :
                       /\ "user_id" \in DOMAIN memory.payload
                       /\ memory.payload.user_id = user_id
                       /\ "is_primary" \in DOMAIN memory.payload
                       /\ memory.payload.is_primary = TRUE)
    IN  IF primary = <<>> THEN <<>> ELSE <<primary[1]>>

\* check_primary_contact_exists: <<memory>>, or <<>> for None.
CheckPrimaryContactExists(evs, user_id) ==
    FirstPrimary(RetrieveContext(evs,
                     <<"emergency", " ", "contact", " ", "primary", " ", "user", " ",
                       user_id>>,
                     10, <<>>, {}),
                 user_id)

\* The position in the list of the event a retrieved memory is.
IndexOf(evs, memory) == CHOOSE k \in DOMAIN evs : evs[k] = memory

\* _update_primary_flag: the payload dict of the first event of the context
\* is changed in place (the stored event changes with it) and stored again
\* in an update event.
UpdatePrimaryFlag(evs, context_id, is_primary, t) ==
    LET memories == RetrieveContext(evs, <<"emergency", " ", "contact", " ">> \o context_id,
                                    1, <<context_id>>, {})
    IN  IF memories = <<>> THEN evs
        ELSE StoreEvent(
                 [evs EXCEPT ![IndexOf(evs, memories[1])].payload.is_primary = is_primary],
                 EMERGENCY_CONTACT_UPDATE, context_id,
                 [memories[1].payload EXCEPT !.is_primary = is_primary],
                 <<>>, <<>>, t)

\* create_emergency_contact up to the duplicate check: [status, evs], status
\* 400 for a rejected phone, 409 for a duplicate, 0 to go on.
ContactChecked(evs, req, t) ==
    LET validated == PhoneValidate(evs, req.phone, req.user_id, t)
    IN  IF ~validated.valid THEN [status |-> 400, evs |-> validated.evs]
        ELSE IF ContactDetectDuplicate(evs, req.phone, req.user_id, req.name, t) # <<>>
        THEN [status |-> 409, evs |-> evs]
        ELSE [status |-> 0, evs |-> evs]

\* The existing primary contact is demoted when the new one is primary.
PrimaryDemoted(evs, req, t) ==
    IF req.is_primary /\ CheckPrimaryContactExists(evs, req.user_id) # <<>>
    THEN UpdatePrimaryFlag(evs, CheckPrimaryContactExists(evs, req.user_id)[1].context_id,
                           FALSE, t)
    ELSE evs

\* create_emergency_contact after the duplicate check: the primary contact
\* is demoted, the contact event stored, the phone marked valid and the
\* user's contact cache invalidated.
ContactStored(evs, req, contact_id, t) ==
    InvalidatePattern(
        RememberSuccess(
            StoreEvent(PrimaryDemoted(evs, req, t),
                       EMERGENCY_CONTACT_CREATE,
                       EntityContext("emergency_contact", contact_id),
                       CreatePayload("emergency_contact",
                                     [name |-> req.name, phone |-> req.phone],
                                     req.is_primary, req.user_id),
                       <<>>, <<>>, t),
            "phone", req.phone, req.user_id, t),
        UserPattern(EmergencyContactCache_CACHE_KEY, req.user_id), t)

\* The position of a name among the names used, in str order.
TextRank(text) ==
    CASE text = <<>> -> 0
      [] text = <<"ann">> -> 1
      [] text = <<"bob">> -> 2
      [] OTHER -> 3

\* The sort key of get_emergency_contacts: (not is_primary, name.lower()).
ContactBefore(a, b) ==
    \/ a.is_primary /\ ~b.is_primary
    \/ a.is_primary = b.is_primary /\ TextRank(Lower(a.name)) < TextRank(Lower(b.name))

\* list.sort(key=...): ascending and stable.
RECURSIVE SortContacts(_)
SortContacts(contacts) ==
    IF contacts = <<>> THEN <<>>
    ELSE LET k == CHOOSE i \in DOMAIN contacts :
                    /\ \A j \in DOMAIN contacts : ~ContactBefore(contacts[j], contacts[i])
                    /\ \A j \in 1..(i - 1) : ContactBefore(contacts[i], contacts[j])
                                             \/ ContactBefore(contacts[j], contacts[i])
         IN  <<contacts[k]>>
             \o SortContacts(SubSeq(contacts, 1, k - 1)
                             \o SubSeq(contacts, k + 1, Len(contacts)))

\* The loop of get_emergency_contacts: one contact dict per memory whose
\* payload user_id is the user's, whatever the kind of the event; a field
\* the payload lacks takes its default ("" or False).
ContactDicts(memories, user_id) ==
    LET own == SelectSeq(memories, LAMBDA m :
                   "user_id" \in DOMAIN m.payload /\ m.payload.user_id = user_id)
    IN  [i \in DOMAIN own |->
            [id |-> <<>>, user_id |-> user_id,
             name |-> PayloadGet(own[i].payload, "name"),
             phone |-> PayloadGet(own[i].payload, "phone"),
             is_primary |-> IF "is_primary" \in DOMAIN own[i].payload
                            THEN own[i].payload.is_primary ELSE FALSE,
             created_at |-> own[i].timestamp]]

\* Whether LocusGraphCache.get returns a truthy value for the user's contacts.
ContactsCached(evs, user_id, t) ==
    LET memories == CacheLookup(evs, EmergencyContactCache_CACHE_KEY, ContactParams(user_id))
    IN  /\ memories # <<>>
        /\ ~IsExpired(memories[1].payload, t)
        /\ "value" \in DOMAIN memories[1].payload
        /\ memories[1].payload.value # <<>>

\* get_emergency_contacts called by a handler (use_cache is the truthy
\* default object): [ret, evs].  The cached list if there is a truthy one,
\* else the list built from the store, sorted and cached.
GetEmergencyContacts(evs, user_id, limit, t) ==
    IF ContactsCached(evs, user_id, t)
    THEN [ret |-> SortContacts(CacheGet(evs, EmergencyContactCache_CACHE_KEY,
                                        ContactParams(user_id), t).ret),
          evs |-> evs]
    ELSE [ret |-> SortContacts(ContactDicts(
                      RetrieveContext(evs, <<"emergency", " ", "contacts", " ", "user",
                                             " ", user_id>>, limit, <<>>, {}),
                      user_id)),
          evs |-> CacheSet(CacheGet(evs, EmergencyContactCache_CACHE_KEY,
                                    ContactParams(user_id), t).evs,
                           EmergencyContactCache_CACHE_KEY,
                           SortContacts(ContactDicts(
                               RetrieveContext(evs, <<"emergency", " ", "contacts", " ",
                                                      "user", " ", user_id>>,
                                               limit, <<>>, {}),
                               user_id)),
                           EmergencyContactCache_DEFAULT_TTL, ContactParams(user_id),
                           [user_id |-> user_id], t)]

EMERGENCY_CONTACT_DELETE == <<"emergency_contact", ".", "delete">>

\* delete_emergency_contact: [status, evs].  404 for an unknown contact, 403
\* for another user's, 400 when get_emergency_contacts lists at most one
\* contact, else the deletion event is stored and the cache invalidated.
ContactDeleted(evs, user_id, contact_id, t) ==
    LET context_id == EntityContext("emergency_contact", contact_id)
        memories == RetrieveContext(evs, <<"emergency", " ", "contact", " ", contact_id>>,
                                    1, <<context_id>>, {})
    IN  IF memories = <<>> THEN [status |-> 404, evs |-> evs]
        ELSE IF memories[1].payload.user_id # user_id THEN [status |-> 403, evs |-> evs]
        ELSE IF Len(GetEmergencyContacts(evs, user_id, 100, t).ret) <= 1
        THEN [status |-> 400, evs |-> GetEmergencyContacts(evs, user_id, 100, t).evs]
        ELSE [status |-> 204,
              evs |-> InvalidatePattern(
                          StoreEvent(GetEmergencyContacts(evs, user_id, 100, t).evs,
                                     EMERGENCY_CONTACT_DELETE, context_id,
                                     [deleted |-> TRUE, contact_id |-> contact_id,
                                      user_id |-> user_id],
                                     <<>>, <<>>, t),
                          UserPattern(EmergencyContactCache_CACHE_KEY, user_id), t)]

-----------------------------------------------------------------------------
(* SpecContact: create_emergency_contact called one after another and by   *)
(* two requests in flight together, on an empty store and on a store that  *)
(* already holds the contacts of other users.                              *)

\* Requests finished.
MaxRequests == 3

PhoneA == <<"5", "5", "5", "0", "1", "0", "0", "0", "0", "1">>
PhoneB == <<"5", "5", "5", "0", "1", "0", "0", "0", "0", "2">>

ContactRequests ==
    [user_id : {"u1"}, phone : {PhoneA, PhoneB},
     name : {<<"ann">>, <<"bob">>}, is_primary : BOOLEAN]

\* The store after five other users have each created their contact.
RECURSIVE OtherContacts(_)
OtherContacts(n) ==
    IF n = 0 THEN <<>>
    ELSE ContactStored(OtherContacts(n - 1),
                       [user_id |-> "v" \o ToString(n), phone |-> PhoneA,
                        name |-> <<"ann">>, is_primary |-> FALSE],
                       "v" \o ToString(n), 0)

InitContact ==
    /\ events \in {<<>>, OtherContacts(5)}
    /\ now = 0
    /\ log = <<>>
    /\ pc = [p \in Procs |-> "idle"]
    /\ loc = [p \in Procs |-> NoLocals]
    /\ fetches = 0
    /\ batch = NoBatch
    /\ ids = 0

\* One finished request.
ContactEntry(req, status, checked, contact_id) ==
    [op |-> "create_emergency_contact", req |-> req, status |-> status,
     checked |-> checked, id |-> contact_id]

\* create_emergency_contact run without interleaving.
CreateEmergencyContact(req) ==
    /\ Len(log) < MaxRequests
    /\ \A p \in Procs : pc[p] = "idle"
    /\ \E checked \in {ContactChecked(events, req, now)} :
          IF checked.status # 0
          THEN /\ events' = checked.evs
               /\ log' = Append(log, ContactEntry(req, checked.status, Len(events), None))
               /\ UNCHANGED ids
          ELSE /\ events' = ContactStored(events, req, NewId(ids), now)
               /\ ids' = ids + 1
               /\ log' = Append(log, ContactEntry(req, 201, Len(events), NewId(ids)))
    /\ UNCHANGED <<now, pc, loc, fetches, batch>>

\* A request in flight runs up to the answer of detect_duplicate.
ContactCheck(p, req) ==
    /\ pc[p] = "idle"
    /\ Len(log) + Cardinality({q \in Procs : pc[q] # "idle"}) < MaxRequests
    /\ \E checked \in {ContactChecked(events, req, now)} :
          IF checked.status # 0
          THEN /\ events' = checked.evs
               /\ log' = Append(log, ContactEntry(req, checked.status, Len(events), None))
               /\ UNCHANGED <<pc, loc>>
          ELSE /\ pc' = [pc EXCEPT ![p] = "checked"]
               /\ loc' = [loc EXCEPT ![p] = [req |-> req, checked |-> Len(events)]]
               /\ UNCHANGED <<events, log>>
    /\ UNCHANGED <<now, fetches, batch, ids>>

\* The request in flight goes on from the answer to the response.
ContactStore(p) ==
    /\ pc[p] = "checked"
    /\ events' = ContactStored(events, loc[p].req, NewId(ids), now)
    /\ ids' = ids + 1
    /\ log' = Append(log, ContactEntry(loc[p].req, 201, loc[p].checked, NewId(ids)))
    /\ pc' = [pc EXCEPT ![p] = "idle"]
    /\ loc' = [loc EXCEPT ![p] = NoLocals]
    /\ UNCHANGED <<now, fetches, batch>>

\* delete_emergency_contact run without interleaving.
DeleteEmergencyContact(user_id, contact_id) ==
    /\ Len(log) < MaxRequests
    /\ \A p \in Procs : pc[p] = "idle"
    /\ \E deleted \in {ContactDeleted(events, user_id, contact_id, now)} :
          /\ events' = deleted.evs
          /\ log' = Append(log, [op |-> "delete_emergency_contact", user_id |-> user_id,
                                 id |-> contact_id, status |-> deleted.status,
                                 before |-> Len(events)])
    /\ UNCHANGED <<now, pc, loc, fetches, batch, ids>>

NextContact ==
    \/ \E req \in ContactRequests : CreateEmergencyContact(req)
    \/ \E contact_id \in KnownIds \cup {"v1"} : DeleteEmergencyContact("u1", contact_id)
    \/ \E p \in Procs, req \in ContactRequests : ContactCheck(p, req)
    \/ \E p \in Procs : ContactStore(p)

SpecContact == InitContact /\ [][NextContact]_vars

\* The position of the contact event a finished request stored.
StoredAt(call) ==
    CHOOSE k \in DOMAIN events :
        /\ events[k].event_kind = EMERGENCY_CONTACT_CREATE
        /\ events[k].context_id = EntityContext("emergency_contact", call.id)

\* Two requests that both stored a contact of one user with one phone.
SamePhoneStored(i, j) ==
    /\ i # j
    /\ log[i].status = 201
    /\ log[j].status = 201
    /\ log[i].req.user_id = log[j].req.user_id
    /\ log[i].req.phone = log[j].req.phone

\* C23: create_emergency_contact never stores two contacts of one user with
\* one phone when the later request ran its duplicate check after the
\* earlier one had stored its contact (calls made one after another).
C23_SequentialCallsStoreNoDuplicate ==
    \A i \in CallsOf("create_emergency_contact"),
       j \in CallsOf("create_emergency_contact") :
        SamePhoneStored(i, j) => log[j].checked < StoredAt(log[i])

\* C23: two requests in flight together both pass detect_duplicate and both
\* store a contact of the same user with the same phone.
C23_ConcurrentCallsStoreDuplicate ==
    \E i \in CallsOf("create_emergency_contact"),
       j \in CallsOf("create_emergency_contact") :
        /\ SamePhoneStored(i, j)
        /\ log[j].checked < StoredAt(log[i])
        /\ log[i].checked < StoredAt(log[j])
        /\ events[1].payload.user_id = "u1"

-----------------------------------------------------------------------------
(* SchemaMigrationManager.  A migration id and a version are texts; a data *)
(* dict is a text too, <<>> standing for None.                             *)

MIGRATION_CONTEXT_PREFIX == <<"schema", "_migration">>
MIGRATION_EVENT_KIND == <<"migration", ".", "run">>
MIGRATION_STEP_KIND == <<"migration", ".", "step">>
MIGRATION_COMPLETED_KIND == <<"migration", ".", "completed">>
MIGRATION_FAILED_KIND == <<"migration", ".", "failed">>

\* _get_migration_context
GetMigrationContext(migration_id) == MIGRATION_CONTEXT_PREFIX \o <<":">> \o migration_id

\* start_migration: the root record under the migration context.
StartMigration(evs, migration_id, from_version, to_version, description, estimated_entities, t) ==
    StoreEvent(evs, MIGRATION_EVENT_KIND, GetMigrationContext(migration_id),
               [migration_id |-> migration_id, from_version |-> from_version,
                to_version |-> to_version, description |-> description,
                estimated_entities |-> estimated_entities,
                started_at |-> IsoFormat(t), status |-> "in_progress",
                entities_migrated |-> 0, entities_failed |-> 0],
               <<>>, <<>>, t)

\* record_migration_step: a step event under the step context of the entity,
\* related to the migration context.
RecordMigrationStep(evs, migration_id, entity_type, entity_id, success, old_data, new_data, t) ==
    StoreEvent(evs, MIGRATION_STEP_KIND,
               GetMigrationContext(migration_id) \o <<":", "step", ":", entity_id>>,
               [entity_type |-> entity_type, entity_id |-> entity_id,
                success |-> success, old_data |-> old_data, new_data |-> new_data,
                migrated_at |-> IsoFormat(t)],
               <<GetMigrationContext(migration_id)>>, <<>>, t)

\* complete_migration: the terminal rollup under the ":completed" context,
\* extending the migration context.
CompleteMigration(evs, migration_id, entities_migrated, entities_failed, t) ==
    StoreEvent(evs, MIGRATION_COMPLETED_KIND,
               GetMigrationContext(migration_id) \o <<":", "completed">>,
               [migration_id |-> migration_id, entities_migrated |-> entities_migrated,
                entities_failed |-> entities_failed, completed_at |-> IsoFormat(t),
                status |-> "completed"],
               <<>>, <<GetMigrationContext(migration_id)>>, t)

\* fail_migration: the terminal rollup under the ":failed" context.
FailMigration(evs, migration_id, entities_migrated, t) ==
    StoreEvent(evs, MIGRATION_FAILED_KIND,
               GetMigrationContext(migration_id) \o <<":", "failed">>,
               [migration_id |-> migration_id, entities_migrated |-> entities_migrated,
                failed_at |-> IsoFormat(t), status |-> "failed"],
               <<>>, <<GetMigrationContext(migration_id)>>, t)

\* The summary get_migration_status builds from the memories found: the
\* last migration.run record is the main record, the migration.step events
\* are counted.
StatusOf(memories, migration_id) ==
    LET mains == SelectSeq(memories, LAMBDA m : m.event_kind = MIGRATION_EVENT_KIND)
        steps == SelectSeq(memories, LAMBDA m : m.event_kind = MIGRATION_STEP_KIND)
    IN  IF memories = <<>> THEN [status |-> "not_found", migration_id |-> migration_id]
        ELSE IF mains = <<>> THEN [status |-> "unknown", migration_id |-> migration_id]
        ELSE [migration_id |-> migration_id,
              status |-> mains[Len(mains)].payload.status,
              from_version |-> mains[Len(mains)].payload.from_version,
              to_version |-> mains[Len(mains)].payload.to_version,
              started_at |-> mains[Len(mains)].payload.started_at,
              completed_at |-> PayloadGet(mains[Len(mains)].payload, "completed_at"),
              entities_migrated |-> mains[Len(mains)].payload.entities_migrated,
              steps_recorded |-> Len(steps)]

\* get_migration_status: the events whose context id is the migration
\* context itself are read.
GetMigrationStatus(evs, migration_id) ==
    StatusOf(RetrieveContext(evs, <<"migration", " ">> \o migration_id, 100,
                             <<GetMigrationContext(migration_id)>>, {}),
             migration_id)

\* The loop of list_migrations: one summary per migration_id, built from the
\* first memory seen that carries it; a memory without one is skipped.
MigrationSummaries(memories) ==
    LET first == SelectSeq([k \in DOMAIN memories |-> [k |-> k, m |-> memories[k]]],
                     LAMBDA x :
                         /\ "migration_id" \in DOMAIN x.m.payload
                         /\ \A j \in 1..(x.k - 1) :
                               PayloadGet(memories[j].payload, "migration_id")
                                   # x.m.payload.migration_id)
    IN  [i \in DOMAIN first |->
            [migration_id |-> first[i].m.payload.migration_id,
             status |-> IF "status" \in DOMAIN first[i].m.payload
                        THEN first[i].m.payload.status ELSE "unknown",
             from_version |-> PayloadGet(first[i].m.payload, "from_version"),
             to_version |-> PayloadGet(first[i].m.payload, "to_version"),
             started_at |-> PayloadGet(first[i].m.payload, "started_at"),
             entities_migrated |-> first[i].m.payload.entities_migrated]]

\* list.sort(key=started_at, reverse=True) over timestamp texts: descending
\* and stable.
RECURSIVE SortByStartedAt(_)
SortByStartedAt(migrations) ==
    IF migrations = <<>> THEN <<>>
    ELSE LET k == CHOOSE i \in DOMAIN migrations :
                    /\ \A j \in DOMAIN migrations :
                          FromIsoFormat(migrations[j].started_at)
                              <= FromIsoFormat(migrations[i].started_at)
                    /\ \A j \in 1..(i - 1) :
                          FromIsoFormat(migrations[j].started_at)
                              < FromIsoFormat(migrations[i].started_at)
         IN  <<migrations[k]>>
             \o SortByStartedAt(SubSeq(migrations, 1, k - 1)
                                \o SubSeq(migrations, k + 1, Len(migrations)))

\* The sort of list_migrations: [raised, ret].  A summary built from a
\* rollup has started_at None, and comparing None with a text or with None
\* raises TypeError as soon as there are two summaries to compare.
SortedSummaries(migrations) ==
    IF Len(migrations) >= 2 /\ \E i \in DOMAIN migrations : migrations[i].started_at = <<>>
    THEN [raised |-> TRUE, ret |-> <<>>]
    ELSE IF Len(migrations) = 1 THEN [raised |-> FALSE, ret |-> migrations]
    ELSE [raised |-> FALSE, ret |-> SortByStartedAt(migrations)]

\* The query of list_migrations; status <<>> for None.
ListQuery(status) ==
    <<"schema", " ", "migrations">>
    \o (IF Truthy(status) THEN <<" ", "status", " ">> \o status ELSE <<>>)

\* list_migrations
ListMigrations(evs, status, limit) ==
    SortedSummaries(MigrationSummaries(RetrieveContext(evs, ListQuery(status), limit,
                                                       <<>>, {})))

\* get_rollback_data: the successful steps with old_data among the events
\* whose context id is the migration context itself.
GetRollbackData(evs, migration_id) ==
    SelectSeq(RetrieveContext(evs, <<"migration", " ", "steps", " ">> \o migration_id,
                              1000, <<GetMigrationContext(migration_id)>>, {}),
              LAMBDA m : /\ "success" \in DOMAIN m.payload
                         /\ m.payload.success
                         /\ Truthy(PayloadGet(m.payload, "old_data")))

\* The loop of execute_rollback: one step per rollback step, old_data and
\* new_data swapped (store_event of the store modelled does not raise, so
\* the except branch is not taken).
RECURSIVE ReplaySteps(_, _, _, _, _)
ReplaySteps(evs, rollback_migration_id, rollback_steps, i, t) ==
    IF i > Len(rollback_steps) THEN evs
    ELSE ReplaySteps(
             RecordMigrationStep(evs, rollback_migration_id,
                                 rollback_steps[i].payload.entity_type,
                                 rollback_steps[i].payload.entity_id, TRUE,
                                 rollback_steps[i].payload.new_data,
                                 rollback_steps[i].payload.old_data, t),
             rollback_migration_id, rollback_steps, i + 1, t)

\* f"rollback_{migration_id}_{int(datetime.now().timestamp())}"
RollbackMigrationId(migration_id, t) ==
    <<"rollback_">> \o migration_id \o <<"_", ToString(t)>>

\* execute_rollback: the event list afterwards.
ExecuteRollback(evs, migration_id, t) ==
    CompleteMigration(
        ReplaySteps(
            StartMigration(evs, RollbackMigrationId(migration_id, t),
                           PayloadGet(GetMigrationStatus(evs, migration_id), "to_version"),
                           PayloadGet(GetMigrationStatus(evs, migration_id), "from_version"),
                           <<"Rollback", " ", "of", " ", "migration", " ">> \o migration_id,
                           Len(GetRollbackData(evs, migration_id)), t),
            RollbackMigrationId(migration_id, t), GetRollbackData(evs, migration_id), 1, t),
        RollbackMigrationId(migration_id, t),
        Len(GetRollbackData(evs, migration_id)), 0, t)

\* The keys of PHASE4_MIGRATIONS.
PHASE4_MIGRATIONS == { <<"v", "4", ".", "0", ".", "0">> }

\* f"v{target_version.replace('.', '_')}"
VersionMigrationId(target_version) ==
    <<"v">> \o [i \in DOMAIN target_version |->
                   IF target_version[i] = "." THEN "_" ELSE target_version[i]]

\* The to_version of the summaries whose status is "completed".
CompletedVersions(migrations) ==
    { migrations[i].to_version :
        i \in { j \in DOMAIN migrations : migrations[j].status = "completed" } }

\* ensure_schema_version: [raised, status, evs].
EnsureSchemaVersion(evs, target_version, t) ==
    IF ListMigrations(evs, <<"completed">>, 100).raised
    THEN [raised |-> TRUE, status |-> None, evs |-> evs]
    ELSE IF target_version \in CompletedVersions(ListMigrations(evs, <<"completed">>, 100).ret)
    THEN [raised |-> FALSE, status |-> "already_at_version", evs |-> evs]
    ELSE IF target_version \notin PHASE4_MIGRATIONS
    THEN [raised |-> FALSE, status |-> "unknown_version", evs |-> evs]
    ELSE [raised |-> FALSE, status |-> "migrated",
          evs |-> CompleteMigration(
                      StartMigration(evs, VersionMigrationId(target_version),
                                     <<"3", ".", "0", ".", "0">>, target_version,
                                     <<"Initial", " ", "Phase", " ", "4", " ", "schema">>,
                                     0, t),
                      VersionMigrationId(target_version), 0, 0, t)]

-----------------------------------------------------------------------------
(* SpecMigration: the manager's writing operations fill the store, then    *)
(* its reading operations, execute_rollback and ensure_schema_version are  *)
(* called one after another.                                               *)

\* Events the writing operations may store, and calls recorded.
MaxMigrationEvents == 3
MaxMigrationCalls == 2

MigrationIds == { <<"m1">>, <<"m2">> }
DefaultTarget == <<"4", ".", "0", ".", "0">>
Targets == { DefaultTarget, <<"v", "4", ".", "0", ".", "0">> }

StartMigrationCall(migration_id) ==
    /\ log = <<>>
    /\ Len(events) < MaxMigrationEvents
    /\ events' = StartMigration(events, migration_id, <<"1">>, <<"2">>, <<"d">>, 0, now)
    /\ UNCHANGED <<now, log, pc, loc, fetches, batch, ids>>

RecordMigrationStepCall(migration_id, success, old_data) ==
    /\ log = <<>>
    /\ Len(events) < MaxMigrationEvents
    /\ events' = RecordMigrationStep(events, migration_id, "appointment",
                                     "e" \o ToString(Len(events)), success,
                                     old_data, <<"new">>, now)
    /\ UNCHANGED <<now, log, pc, loc, fetches, batch, ids>>

CompleteMigrationCall(migration_id) ==
    /\ log = <<>>
    /\ Len(events) < MaxMigrationEvents
    /\ events' = CompleteMigration(events, migration_id, 0, 0, now)
    /\ UNCHANGED <<now, log, pc, loc, fetches, batch, ids>>

FailMigrationCall(migration_id) ==
    /\ log = <<>>
    /\ Len(events) < MaxMigrationEvents
    /\ events' = FailMigration(events, migration_id, 0, now)
    /\ UNCHANGED <<now, log, pc, loc, fetches, batch, ids>>

GetMigrationStatusCall(migration_id) ==
    /\ Len(log) < MaxMigrationCalls
    /\ log' = Append(log, [op |-> "get_migration_status", migration_id |-> migration_id,
                           before |-> Len(events), after |-> Len(events),
                           ret |-> GetMigrationStatus(events, migration_id)])
    /\ UNCHANGED <<events, now, pc, loc, fetches, batch, ids>>

ListMigrationsCall(status) ==
    /\ Len(log) < MaxMigrationCalls
    /\ \E listed \in {ListMigrations(events, status, 50)} :
          log' = Append(log, [op |-> "list_migrations", status |-> status,
                              before |-> Len(events), after |-> Len(events),
                              candidates |-> RetrieveContext(events, ListQuery(status),
                                                             50, <<>>, {}),
                              raised |-> listed.raised, ret |-> listed.ret])
    /\ UNCHANGED <<events, now, pc, loc, fetches, batch, ids>>

ExecuteRollbackCall(migration_id) ==
    /\ Len(log) < MaxMigrationCalls
    /\ events' = ExecuteRollback(events, migration_id, now)
    /\ log' = Append(log, [op |-> "execute_rollback", migration_id |-> migration_id,
                           before |-> Len(events), after |-> Len(events'),
                           ret |-> RollbackMigrationId(migration_id, now)])
    /\ UNCHANGED <<now, pc, loc, fetches, batch, ids>>

EnsureSchemaVersionCall(target_version) ==
    /\ Len(log) < MaxMigrationCalls
    /\ \E ensured \in {EnsureSchemaVersion(events, target_version, now)} :
          /\ events' = ensured.evs
          /\ log' = Append(log, [op |-> "ensure_schema_version",
                                 target_version |-> target_version,
                                 before |-> Len(events), after |-> Len(ensured.evs),
                                 raised |-> ensured.raised, status |-> ensured.status])
    /\ UNCHANGED <<now, pc, loc, fetches, batch, ids>>

NextMigration ==
    \/ \E migration_id \in MigrationIds : StartMigrationCall(migration_id)
    \/ \E success \in BOOLEAN, old_data \in {<<>>, <<"old">>} :
           RecordMigrationStepCall(<<"m1">>, success, old_data)
    \/ \E migration_id \in MigrationIds : CompleteMigrationCall(migration_id)
    \/ FailMigrationCall(<<"m1">>)
    \/ GetMigrationStatusCall(<<"m1">>)
    \/ \E status \in {<<>>, <<"completed">>} : ListMigrationsCall(status)
    \/ ExecuteRollbackCall(<<"m1">>)
    \/ \E target_version \in Targets : EnsureSchemaVersionCall(target_version)
    \/ TickMinute

SpecMigration == Init /\ [][NextMigration]_vars

\* The kinds of the lifecycle events (root record, terminal rollups) stored
\* for the migration before the recorded call, in order.
Lifecycle(call) ==
    LET own == SelectSeq(SubSeq(events, 1, call.before), LAMBDA e :
                   /\ e.event_kind \in {MIGRATION_EVENT_KIND, MIGRATION_COMPLETED_KIND,
                                        MIGRATION_FAILED_KIND}
                   /\ e.payload.migration_id = call.migration_id)
    IN  [i \in DOMAIN own |-> own[i].event_kind]

\* The step events stored for the migration before the recorded call.
StepsOf(migration_id, before) ==
    SelectSeq(SubSeq(events, 1, before), LAMBDA e :
        /\ e.event_kind = MIGRATION_STEP_KIND
        /\ e.related_to = <<GetMigrationContext(migration_id)>>)

\* C25: get_migration_status reports not_found before start_migration,
\* in_progress after it, completed after complete_migration and failed after
\* fail_migration (so never in_progress again once a terminal rollup is
\* stored).
C25_StatusFollowsStateMachine ==
    \A i \in CallsOf("get_migration_status") :
        /\ Lifecycle(log[i]) = <<>> => log[i].ret.status = "not_found"
        /\ Lifecycle(log[i]) = <<MIGRATION_EVENT_KIND>> => log[i].ret.status = "in_progress"
        /\ Lifecycle(log[i]) = <<MIGRATION_EVENT_KIND, MIGRATION_COMPLETED_KIND>>
               => log[i].ret.status = "completed"
        /\ Lifecycle(log[i]) = <<MIGRATION_EVENT_KIND, MIGRATION_FAILED_KIND>>
               => log[i].ret.status = "failed"

\* C26: for a started migration on which record_migration_step was called k
\* times, get_migration_status returns steps_recorded = k.
C26_StepsRecordedCountsSteps ==
    \A i \in CallsOf("get_migration_status") :
        (Lifecycle(log[i]) # <<>> /\ Lifecycle(log[i])[1] = MIGRATION_EVENT_KIND)
        => /\ "steps_recorded" \in DOMAIN log[i].ret
           /\ log[i].ret.steps_recorded = Len(StepsOf(log[i].migration_id, log[i].before))

\* The steps of the migration with success = true and populated old_data
\* stored before the recorded call.
Replayable(call) ==
    SelectSeq(StepsOf(call.migration_id, call.before), LAMBDA e :
        e.payload.success /\ e.payload.old_data # <<>>)

\* The events the recorded call appended.
Appended(call) == SubSeq(events, call.before + 1, call.after)

\* C27: execute_rollback of a migration started once from a to b starts a
\* new migration from b to a, records one step per replayable step of the
\* original with old_data and new_data swapped, and appends a terminal
\* rollup with entities_migrated equal to their number.
C27_RollbackReplaysSteps ==
    \A i \in CallsOf("execute_rollback") :
        Lifecycle(log[i]) = <<MIGRATION_EVENT_KIND>> =>
            LET k == Len(Replayable(log[i]))
                new == Appended(log[i])
            IN  /\ log[i].ret # log[i].migration_id
                /\ Len(new) = k + 2
                /\ new[1].event_kind = MIGRATION_EVENT_KIND
                /\ new[1].payload.migration_id = log[i].ret
                /\ new[1].payload.from_version = <<"2">>
                /\ new[1].payload.to_version = <<"1">>
                /\ \A n \in 1..k :
                      /\ new[n + 1].event_kind = MIGRATION_STEP_KIND
                      /\ new[n + 1].payload.entity_id = Replayable(log[i])[n].payload.entity_id
                      /\ new[n + 1].payload.old_data = Replayable(log[i])[n].payload.new_data
                      /\ new[n + 1].payload.new_data = Replayable(log[i])[n].payload.old_data
                /\ new[k + 2].event_kind = MIGRATION_COMPLETED_KIND
                /\ new[k + 2].payload.entities_migrated = k

\* C28: list_migrations returns normally, each migration_id at most once,
\* built from the first candidate carrying it, ordered by started_at
\* non-increasing.
C28_ListDedupesAndSorts ==
    \A i \in CallsOf("list_migrations") :
        /\ ~log[i].raised
        /\ \A a, b \in DOMAIN log[i].ret :
              log[i].ret[a].migration_id = log[i].ret[b].migration_id => a = b
        /\ \A a \in DOMAIN log[i].ret :
              \E c \in DOMAIN log[i].candidates :
                  /\ PayloadGet(log[i].candidates[c].payload, "migration_id")
                         = log[i].ret[a].migration_id
                  /\ log[i].candidates[c].payload.status = log[i].ret[a].status
                  /\ \A d \in 1..(c - 1) :
                        PayloadGet(log[i].candidates[d].payload, "migration_id")
                            # log[i].ret[a].migration_id
        /\ \A a \in 1..(Len(log[i].ret) - 1) :
              FromIsoFormat(log[i].ret[a + 1].started_at)
                  <= FromIsoFormat(log[i].ret[a].started_at)

\* C29: once a call of ensure_schema_version for a target has run the
\* migration, every later call for that target returns "already_at_version"
\* and appends no event.
C29_EnsureIsIdempotent ==
    \A i \in CallsOf("ensure_schema_version"), j \in CallsOf("ensure_schema_version") :
        (/\ i < j
         /\ log[i].status = "migrated"
         /\ log[j].target_version = log[i].target_version)
        => /\ log[j].status = "already_at_version"
           /\ log[j].after = log[j].before

\* Whether a completed rollup of a migration to the version is stored
\* before the recorded call.
CompletedTo(version, call) ==
    \E r, c \in 1..call.before :
        /\ events[r].event_kind = MIGRATION_EVENT_KIND
        /\ events[r].payload.to_version = version
        /\ events[c].event_kind = MIGRATION_COMPLETED_KIND
        /\ events[c].payload.migration_id = events[r].payload.migration_id

\* C30: with no completed migration to it, ensure_schema_version called with
\* its default target "4.0.0" appends a migration.run record with to_version
\* = target and a migration.completed rollup of the same migration id, and
\* returns "migrated".
C30_DefaultTargetIsMigrated ==
    \A i \in CallsOf("ensure_schema_version") :
        (/\ log[i].target_version = DefaultTarget
         /\ ~log[i].raised
         /\ ~CompletedTo(DefaultTarget, log[i]))
        => /\ log[i].status = "migrated"
           /\ Len(Appended(log[i])) = 2
           /\ Appended(log[i])[1].event_kind = MIGRATION_EVENT_KIND
           /\ Appended(log[i])[1].payload.to_version = DefaultTarget
           /\ Appended(log[i])[2].event_kind = MIGRATION_COMPLETED_KIND
           /\ Appended(log[i])[2].payload.migration_id
                  = Appended(log[i])[1].payload.migration_id

\* C31: the store is append-only: every step keeps the stored events and
\* leaves the kind, context id and payload of each of them unchanged.
C31_StoreIsAppendOnly ==
    [][/\ Len(events') >= Len(events)
       /\ \A k \in DOMAIN events :
             /\ events'[k].event_kind = events[k].event_kind
             /\ events'[k].context_id = events[k].context_id
             /\ events'[k].payload = events[k].payload]_vars

\* The contacts of the user: the contexts of the user's create events.
ContactsOf(user_id) ==
    { events[k].context_id : k \in { j \in DOMAIN events :
        /\ events[j].event_kind = EMERGENCY_CONTACT_CREATE
        /\ events[j].payload.user_id = user_id } }

\* Whether a deletion event is stored for the contact.
ContactIsDeleted(context_id) ==
    \E k \in DOMAIN events :
        /\ events[k].event_kind = EMERGENCY_CONTACT_DELETE
        /\ events[k].context_id = context_id

\* C33: a user who has created a contact keeps at least one contact without
\* a deletion event, whatever create and delete requests were made.
C33_LastContactIsKept ==
    \A user_id \in {"u1"} :
        ContactsOf(user_id) # {}
        => \E context_id \in ContactsOf(user_id) : ~ContactIsDeleted(context_id)

-----------------------------------------------------------------------------
(* SpecPrimary: create_emergency_contact and the batch route called one    *)
(* after another by one user.                                              *)

\* The validation loop of create_emergency_contacts_batch: [valid, evs], the
\* first rejected phone ending it.
RECURSIVE PhonesValidated(_, _, _, _, _)
PhonesValidated(evs, contacts, i, user_id, t) ==
    IF i > Len(contacts) THEN [valid |-> TRUE, evs |-> evs]
    ELSE IF ~PhoneValidate(evs, contacts[i].phone, user_id, t).valid
    THEN [valid |-> FALSE, evs |-> PhoneValidate(evs, contacts[i].phone, user_id, t).evs]
    ELSE PhonesValidated(evs, contacts, i + 1, user_id, t)

\* One iteration of the loop of create_emergency_contacts for a contact the
\* route has validated (create_payload accepts it and no store call raises).
ContactItemStored(b, evs, n, item, t) ==
    ItemSucceeded(b,
                  StoreEvent(evs, EMERGENCY_CONTACT_CREATE,
                             EntityContext("emergency_contact", NewId(n)),
                             CreatePayload("emergency_contact", item,
                                           StoredIsPrimary(b, item), b.user_id),
                             <<b.batch_context>>, <<>>, t),
                  n + 1, NewId(n), Append(b.created_ids, NewId(n)),
                  IF StoredIsPrimary(b, item) THEN b.primary_count + 1
                  ELSE b.primary_count,
                  t)

\* The loop of create_emergency_contacts from item b.i on: [b, evs, ids].
RECURSIVE ContactItemsStored(_, _, _, _)
ContactItemsStored(b, evs, n, t) ==
    IF b.i > Len(b.items) THEN [b |-> b, evs |-> evs, ids |-> n]
    ELSE ContactItemsStored(ContactItemStored(b, evs, n, b.items[b.i], t).b,
                            ContactItemStored(b, evs, n, b.items[b.i], t).evs,
                            n + 1, t)

\* BatchEmergencyContactCreator.create_emergency_contacts with
\* ensure_one_primary, run to its end: [b, evs, ids].
ContactsBatchRun(evs, contacts, user_id, n, t) ==
    ContactItemsStored(
        [BatchLocals("emergency_contact", user_id, contacts, TRUE)
            EXCEPT !.pc = "loop",
                   !.batch_context = BatchContext(user_id, "emergency_contact", NewId(n))],
        BatchCreate(evs, user_id, "emergency_contact", NewId(n), Len(contacts), t),
        n + 1, t)

\* create_emergency_contacts_batch: 400 when a phone is rejected, else the
\* batch is created, completed and the user's contact cache invalidated.
CreateEmergencyContactsBatch(user_id, contacts) ==
    /\ Len(log) < MaxRequests
    /\ \E validated \in {PhonesValidated(events, contacts, 1, user_id, now)} :
          IF ~validated.valid
          THEN /\ events' = validated.evs
               /\ log' = Append(log, [op |-> "create_emergency_contacts_batch",
                                      user_id |-> user_id, contacts |-> contacts,
                                      status |-> 400])
               /\ UNCHANGED ids
          ELSE \E run \in {ContactsBatchRun(events, contacts, user_id, ids, now)} :
               /\ events' = InvalidatePattern(
                                BatchComplete(run.evs, run.b.batch_context, Len(contacts),
                                              run.b.successful_count, run.b.failed_count,
                                              run.b.created_ids, now),
                                UserPattern(EmergencyContactCache_CACHE_KEY, user_id), now)
               /\ ids' = run.ids
               /\ log' = Append(log, [op |-> "create_emergency_contacts_batch",
                                      user_id |-> user_id, contacts |-> contacts,
                                      status |-> 201])
    /\ UNCHANGED <<now, pc, loc, fetches, batch>>

\* The contact lists of the batch requests.
BatchContacts ==
    { [name |-> <<"ann">>, phone |-> PhoneA, is_primary |-> TRUE],
      [name |-> <<"bob">>, phone |-> PhoneB, is_primary |-> TRUE],
      [name |-> <<"bob">>, phone |-> PhoneB, is_primary |-> FALSE] }

BatchContactLists == UNION { [1..n -> BatchContacts] : n \in 1..2 }

NextPrimary ==
    \/ \E req \in ContactRequests : CreateEmergencyContact(req)
    \/ \E contacts \in BatchContactLists : CreateEmergencyContactsBatch("u1", contacts)

SpecPrimary == Init /\ [][NextPrimary]_vars

\* The current (folded) is_primary of a contact: that of the latest create
\* or update event of its context.
FoldedIsPrimary(context_id) ==
    LET own == SelectSeq(events, LAMBDA e :
                   /\ e.context_id = context_id
                   /\ e.event_kind \in {EMERGENCY_CONTACT_CREATE, EMERGENCY_CONTACT_UPDATE})
    IN  own[Len(own)].payload.is_primary

\* C38: after create_emergency_contact and batch calls made one after
\* another by one user, at most one of the user's contacts is primary in its
\* folded state.
C38_AtMostOnePrimary ==
    Cardinality({ context_id \in ContactsOf("u1") : FoldedIsPrimary(context_id) }) <= 1

-----------------------------------------------------------------------------
(* SpecPhone: PhoneValidator.validate called by two users while the clock  *)
(* advances by half days.                                                  *)

MaxValidations == 3

\* A phone with too few digits and phones with ten, by area prefix.
PhoneShort == <<"5", "5", "5", "-", "0", "1">>
PhoneOther == <<"4", "1", "5", "0", "1", "0", "0", "0", "0", "1">>

PhoneValidateCall(user_id, phone) ==
    /\ Len(log) < MaxValidations
    /\ \E validated \in {PhoneValidate(events, phone, user_id, now)} :
          /\ events' = validated.evs
          /\ log' = Append(log, [op |-> "validate", user_id |-> user_id,
                                 phone |-> phone, t |-> now, before |-> Len(events),
                                 valid |-> validated.valid])
    /\ UNCHANGED <<now, pc, loc, fetches, batch, ids>>

NextPhone ==
    \/ \E user_id \in Users, phone \in {PhoneShort, PhoneA, PhoneOther} :
           PhoneValidateCall(user_id, phone)
    \/ TickHalfDay

SpecPhone == Init /\ [][NextPhone]_vars

\* Whether a failure remembered with the user's id is stored before the
\* recorded call.
OwnFailure(call) ==
    \E k \in 1..call.before :
        /\ events[k].event_kind = VALIDATION_FAILED_EVENT_KIND
        /\ events[k].payload.user_id = call.user_id

\* C37: PhoneValidator.validate accepts a phone number with at least 10
\* digits for a user no failure was remembered for, whatever the other users
\* submitted before.
C37_FailuresAreUserScoped ==
    \A i \in CallsOf("validate") :
        (Len(Cleaned(log[i].phone)) >= 10 /\ ~OwnFailure(log[i])) => log[i].valid

-----------------------------------------------------------------------------
(* SpecFold: the appointment routes create, update, delete and get, called *)
(* one after another.                                                      *)

MaxUpdates == 1

APPOINTMENT_UPDATE == <<"appointment", ".", "update">>

\* The first event of the appointment's context, as the get, update and
\* delete handlers read it (limit=1): <<memory>>, or <<>>.
AppointmentMemories(evs, appointment_id) ==
    RetrieveContext(evs, <<"appointment", " ", appointment_id>>, 1,
                    <<EntityContext("appointment", appointment_id)>>, {})

\* get_appointment: 404 when the context holds no event, 403 when the event
\* read belongs to another user, else the response built from its payload.
GetAppointment(user_id, appointment_id) ==
    /\ Len(log) < MaxOps
    /\ \E memories \in {AppointmentMemories(events, appointment_id)} :
       LET entry == [op |-> "get_appointment", t |-> now, user_id |-> user_id,
                     id |-> appointment_id, before |-> Len(events)]
       IN  IF memories = <<>>
           THEN log' = Append(log, entry @@ [status |-> 404, title |-> <<>>,
                                             scheduled_at |-> <<>>])
           ELSE IF "user_id" \notin DOMAIN memories[1].payload
                   \/ memories[1].payload.user_id # user_id
           THEN log' = Append(log, entry @@ [status |-> 403, title |-> <<>>,
                                             scheduled_at |-> <<>>])
           ELSE log' = Append(log, entry @@
                           [status |-> 200,
                            title |-> PayloadGet(memories[1].payload, "title"),
                            scheduled_at |-> PayloadGet(memories[1].payload,
                                                        "scheduled_at")])
    /\ UNCHANGED <<events, now, pc, loc, fetches, batch, ids>>

\* update_appointment: 404 and 403 as get_appointment; else the fields given
\* (title, scheduled_at; <<>> for None) replace those of the event read and
\* the merged payload is stored as an update event in the same context.
UpdateAppointment(user_id, appointment_id, title, scheduled_at) ==
    /\ Len(log) < MaxOps
    /\ Cardinality(EventsOfKind(APPOINTMENT_UPDATE)) < MaxUpdates
    /\ \E memories \in {AppointmentMemories(events, appointment_id)} :
       LET entry == [op |-> "update_appointment", t |-> now, user_id |-> user_id,
                     id |-> appointment_id, before |-> Len(events)]
           payload == memories[1].payload
           updated_payload ==
               [title |-> IF Truthy(title) THEN title
                          ELSE PayloadGet(payload, "title"),
                scheduled_at |-> IF scheduled_at # <<>>
                                 THEN JsonDatetime(scheduled_at[1])
                                 ELSE PayloadGet(payload, "scheduled_at"),
                reminder_minutes_before |->
                    IF "reminder_minutes_before" \in DOMAIN payload
                    THEN payload.reminder_minutes_before ELSE None,
                user_id |-> user_id]
       IN  IF memories = <<>>
           THEN /\ log' = Append(log, entry @@ [status |-> 404, title |-> <<>>,
                                                scheduled_at |-> <<>>])
                /\ UNCHANGED events
           ELSE IF "user_id" \notin DOMAIN payload \/ payload.user_id # user_id
           THEN /\ log' = Append(log, entry @@ [status |-> 403, title |-> <<>>,
                                                scheduled_at |-> <<>>])
                /\ UNCHANGED events
           ELSE /\ events' = StoreEvent(events, APPOINTMENT_UPDATE,
                                        EntityContext("appointment", appointment_id),
                                        updated_payload, <<>>, <<>>, now)
                /\ log' = Append(log, entry @@
                              [status |-> 200, title |-> updated_payload.title,
                               scheduled_at |-> updated_payload.scheduled_at])
    /\ UNCHANGED <<now, pc, loc, fetches, batch, ids>>

\* Inputs of update_appointment: a new title or none, a new time or none.
UpdateTitles == { <<>>, <<"Visit">> }
UpdateDatetimes == { <<>>, <<Aware(180)>> }

NextFold ==
    \/ \E title \in ApptTitles, scheduled_at \in ApptDatetimes,
          minutes \in ApptMinutes :
           CreateAppointment("u1", title, scheduled_at, minutes)
    \/ \E user_id \in Users, appointment_id \in KnownIds,
          title \in UpdateTitles, scheduled_at \in UpdateDatetimes :
           UpdateAppointment(user_id, appointment_id, title, scheduled_at)
    \/ \E user_id \in Users, appointment_id \in KnownIds :
           DeleteAppointment(user_id, appointment_id)
    \/ \E user_id \in Users, appointment_id \in KnownIds :
           GetAppointment(user_id, appointment_id)

SpecFold == Init /\ [][NextFold]_vars

\* The last call before call i that the route answered with the status, for
\* the same appointment and user: a set of at most one index.
LastCall(op, status, i) ==
    { j \in CallsOf(op) :
        /\ j < i /\ log[j].status = status
        /\ log[j].id = log[i].id /\ log[j].user_id = log[i].user_id
        /\ \A k \in CallsOf(op) :
              (k < i /\ log[k].status = status /\ log[k].id = log[i].id) => k <= j }

\* C32: get_appointment after a successful update_appointment of the same
\* appointment returns the values the update stored, and after a successful
\* delete_appointment it reports not found.
C32_ReadsAreFolded ==
    \A i \in CallsOf("get_appointment") :
        /\ \A j \in LastCall("delete_appointment", 204, i) : log[i].status = 404
        /\ (LastCall("delete_appointment", 204, i) = {}
            => \A j \in LastCall("update_appointment", 200, i) :
                  /\ log[i].status = 200
                  /\ log[i].title = log[j].title
                  /\ log[i].scheduled_at = log[j].scheduled_at)

-----------------------------------------------------------------------------
(* Reminder status events and get_due_reminders (under SpecReminder).      *)

\* Whether a reminder.sent or reminder.cancelled event is stored under the
\* context id.
StatusAppended(context_id) ==
    \E k \in StatusEvents : events[k].context_id = context_id

\* C34: a get_due_reminders call returns no reminder under whose context id
\* mark_reminder_sent or cancel_reminder appended its status event before
\* the call.
C34_SentAndCancelledAreTerminal ==
    [][(Len(log') > Len(log) /\ log'[Len(log')].op = "get_due_reminders")
        => \A k \in DOMAIN log'[Len(log')].ret :
               ~StatusAppended(log'[Len(log')].ret[k].context_id)]_vars

-----------------------------------------------------------------------------
(* SpecConflict: create_appointment called repeatedly with appointment     *)
(* times near the clock and days away.                                     *)

\* Seconds from the start of the clock to an appointment days away.
FarSeconds == 3 * 86400

ConflictDatetimes == { Offset(120), Offset(FarSeconds), Aware(120), Aware(FarSeconds) }

NextConflict ==
    \/ \E title \in ApptTitles, scheduled_at \in ConflictDatetimes,
          minutes \in ApptMinutes :
           CreateAppointment("u1", title, scheduled_at, minutes)
    \/ TickMinute

SpecConflict == Init /\ [][NextConflict]_vars

\* The stored appointments of the user with the title and time, among the
\* candidates the duplicate search of a request with these fields returns.
SameAppointmentCandidates(evs, user_id, title, scheduled_at) ==
    { k \in DOMAIN evs :
        /\ evs[k].event_kind = APPOINTMENT_CREATE
        /\ evs[k].payload.user_id = user_id
        /\ evs[k].payload.title = title
        /\ evs[k].payload.scheduled_at = JsonDatetime(scheduled_at)
        /\ \E c \in DOMAIN RetrieveContext(evs,
                        SimilarQuery("appointment", user_id,
                                     [title |-> title,
                                      scheduled_at |-> DtIsoFormat(scheduled_at)]),
                        10, <<>>, {}) :
              RetrieveContext(evs,
                  SimilarQuery("appointment", user_id,
                               [title |-> title,
                                scheduled_at |-> DtIsoFormat(scheduled_at)]),
                  10, <<>>, {})[c] = evs[k] }

\* C35: create_appointment answers 409 to a request whose title and
\* scheduled_at equal those of a stored appointment of the user that is among
\* the candidates of the duplicate search, whether scheduled_at is near the
\* current time or days away.
C35_EqualRequestIsConflict ==
    [][(Len(log') > Len(log) /\ log'[Len(log')].op = "create_appointment"
        /\ SameAppointmentCandidates(events, log'[Len(log')].user_id,
                                     log'[Len(log')].title,
                                     log'[Len(log')].scheduled_at) # {})
        => log'[Len(log')].status = 409]_vars

-----------------------------------------------------------------------------
(* SpecTemporal: two users create appointments and call                    *)
(* get_temporal_contexts.                                                  *)

TemporalDatetimes == { Offset(120) }

NextTemporal ==
    \/ \E user_id \in Users, title \in ApptTitles,
          scheduled_at \in TemporalDatetimes, minutes \in ApptMinutes :
           CreateAppointment(user_id, title, scheduled_at, minutes)
    \/ \E user_id \in Users, temporal_type \in TemporalTypes,
          limit \in TemporalLimits :
           GetTemporalContextsCall(user_id, temporal_type, <<>>, limit)
    \/ TickMinute

SpecTemporal == Init /\ [][NextTemporal]_vars

\* C36: every event get_temporal_contexts returns for user_id u has payload
\* user_id u.
C36_ReturnsOnlyTheUsersEvents ==
    \A i \in CallsOf("get_temporal_contexts") :
        \A k \in DOMAIN log[i].ret :
            /\ "user_id" \in DOMAIN log[i].ret[k].payload
            /\ log[i].ret[k].payload.user_id = log[i].user_id

\* C39: get_temporal_contexts does not raise, and it returns no event whose
\* payload has none of scheduled_at, trigger_at and timestamp.
C39_NeverRaisesOnCandidates ==
    \A i \in CallsOf("get_temporal_contexts") :
        /\ ~log[i].raised
        /\ \A k \in DOMAIN log[i].ret : TemporalTimeText(log[i].ret[k].payload) # <<>>

-----------------------------------------------------------------------------
(* Alarms: the alarm routes and AlarmScheduler.check_alarms.               *)

ALARM_CREATE == <<"alarm", ".", "create">>
ALARM_UPDATE == <<"alarm", ".", "update">>
ALARM_DELETE == <<"alarm", ".", "delete">>
NOTIFICATION_CREATE == <<"notification", ".", "create">>

\* The event_id the store gives the k-th event it stores.
EventId(k) == "ev" \o ToString(k)

\* now.strftime("%H:%M"), as the hour and the minute.
CurrentTime(t) == <<(t \div 3600) % 24, ":", (t \div 60) % 60>>

\* now.strftime("%a").lower(); the clock starts on a Thursday.
DayNames == <<"thu", "fri", "sat", "sun", "mon", "tue", "wed">>
CurrentDay(t) == DayNames[(DayOf(t) % 7) + 1]

\* AlarmEventDefinition.create_payload; message and reference_id are left at
\* None and not carried.
AlarmPayload(type, title, time, days_of_week, active, user_id) ==
    [type |-> type, title |-> title, time |-> time,
     days_of_week |-> days_of_week, active |-> active, user_id |-> user_id]

\* The first event of the alarm's context, as update_alarm and delete_alarm
\* read it (limit=1): <<memory>>, or <<>>.
AlarmMemories(evs, alarm_id) ==
    RetrieveContext(evs, <<"alarm", " ", alarm_id>>, 1,
                    <<EntityContext("alarm", alarm_id)>>, {})

\* update_alarm with only `active` given (<<>> for None): [status, evs].
AlarmUpdated(evs, user_id, alarm_id, active, t) ==
    LET memories == AlarmMemories(evs, alarm_id)
        payload == memories[1].payload
    IN  IF memories = <<>> THEN [status |-> 404, evs |-> evs]
        ELSE IF "user_id" \notin DOMAIN payload \/ payload.user_id # user_id
        THEN [status |-> 403, evs |-> evs]
        ELSE [status |-> 200,
              evs |-> StoreEvent(evs, ALARM_UPDATE, EntityContext("alarm", alarm_id),
                          AlarmPayload(payload.type, payload.title, payload.time,
                                       payload.days_of_week,
                                       IF active # <<>> THEN active[1]
                                       ELSE payload.active,
                                       user_id),
                          <<>>, <<>>, t)]

\* delete_alarm: [status, evs].
AlarmDeleted(evs, user_id, alarm_id, t) ==
    LET memories == AlarmMemories(evs, alarm_id)
    IN  IF memories = <<>> THEN [status |-> 404, evs |-> evs]
        ELSE IF "user_id" \notin DOMAIN memories[1].payload
                \/ memories[1].payload.user_id # user_id
        THEN [status |-> 403, evs |-> evs]
        ELSE [status |-> 204,
              evs |-> StoreEvent(evs, ALARM_DELETE, EntityContext("alarm", alarm_id),
                          [deleted |-> TRUE, alarm_id |-> alarm_id,
                           user_id |-> user_id],
                          <<>>, <<>>, t)]

\* The positions in the store of the events retrieve_context(query, limit)
\* returns.
RetrievedPositions(evs, query, limit) ==
    Take(SelectSeq([k \in 1..Len(evs) |-> k],
                   LAMBDA k : MatchesQuery(evs[k], query)), limit)

\* _was_notified_today at time t: the first memory with a created_at decides;
\* a naive created_at cannot be compared with the aware start of today and
\* raises, an aware one at or after the start of today gives True.
WasNotifiedToday(evs, alarm_id, t) ==
    LET memories == RetrieveContext(evs, <<"notification", " ", "alarm", " ", alarm_id>>,
                                    10, <<>>, {})
        deciding == { k \in DOMAIN memories :
                        /\ "created_at" \in DOMAIN memories[k].payload
                        /\ Truthy(memories[k].payload.created_at)
                        /\ \/ ~DtFromIsoFormat(memories[k].payload.created_at).aware
                           \/ DtFromIsoFormat(memories[k].payload.created_at).s
                                  >= 86400 * DayOf(t) }
    IN  IF deciding = {} THEN [raised |-> FALSE, ret |-> FALSE]
        ELSE LET first == CHOOSE k \in deciding : \A j \in deciding : k <= j
             IN  IF DtFromIsoFormat(memories[first].payload.created_at).aware
                 THEN [raised |-> FALSE, ret |-> TRUE]
                 ELSE [raised |-> TRUE, ret |-> FALSE]

\* _generate_message for the type "medication".
GenerateMessage(title) == <<"Time", " ", "to", " ", "take", " ">> \o title

\* _create_notification: the notification event; created_at is the naive
\* datetime.now().
CreateNotification(evs, alarm_payload, alarm_id, notification_id, t) ==
    StoreEvent(evs, NOTIFICATION_CREATE, EntityContext("notification", notification_id),
               [alarm_id |-> alarm_id,
                title |-> PayloadGet(alarm_payload, "title"),
                message |-> GenerateMessage(PayloadGet(alarm_payload, "title")),
                type |-> alarm_payload.type,
                read |-> FALSE,
                created_at |-> DtIsoFormat(Naive(t)),
                user_id |-> alarm_payload.user_id],
               <<>>, <<>>, t)

\* Whether check_alarms lets the memory's payload fire at time t: active (True
\* when missing), the current day among days_of_week ([] when missing), time
\* equal to the current time.
AlarmFires(payload, t) ==
    /\ ("active" \in DOMAIN payload => payload.active)
    /\ "days_of_week" \in DOMAIN payload
    /\ \E d \in DOMAIN payload.days_of_week : payload.days_of_week[d] = CurrentDay(t)
    /\ "time" \in DOMAIN payload
    /\ payload.time = CurrentTime(t)

\* The loop of check_alarms over the memories at the positions, from the
\* i-th on; n ids were handed out: [raised, evs, n].
RECURSIVE AlarmsChecked(_, _, _, _, _)
AlarmsChecked(evs, positions, i, n, t) ==
    IF i > Len(positions) THEN [raised |-> FALSE, evs |-> evs, n |-> n]
    ELSE IF ~AlarmFires(evs[positions[i]].payload, t)
    THEN AlarmsChecked(evs, positions, i + 1, n, t)
    ELSE LET notified == WasNotifiedToday(evs, EventId(positions[i]), t)
         IN  IF notified.raised THEN [raised |-> TRUE, evs |-> evs, n |-> n]
             ELSE IF notified.ret THEN AlarmsChecked(evs, positions, i + 1, n, t)
             ELSE AlarmsChecked(
                      CreateNotification(evs, evs[positions[i]].payload,
                                         EventId(positions[i]), NewId(n), t),
                      positions, i + 1, n + 1, t)

\* check_alarms at time t, n ids handed out before.
CheckAlarmsRun(evs, n, t) ==
    AlarmsChecked(evs, RetrievedPositions(evs, <<"alarms">>, 500), 1, n, t)

-----------------------------------------------------------------------------
(* SpecAlarm: alarms are created, updated and deleted, and check_alarms    *)
(* runs, while the clock advances by minutes.                              *)

MaxAlarms == 2
MaxAlarmChanges == 1
MaxChecks == 2

\* Inputs of create_alarm: a title the scheduler's search word occurs in and
\* one it does not; the first two minutes of the day; today, and every day.
AlarmTitles == { <<"pills">>, <<"reset", " ", "alarms">> }
AlarmTimes == { <<0, ":", 0>>, <<0, ":", 1>> }
AlarmDays == { <<"thu">>, <<"fri">> }

CreateAlarm(user_id, title, time, days_of_week, active) ==
    /\ Cardinality(EventsOfKind(ALARM_CREATE)) < MaxAlarms
    /\ events' = StoreEvent(events, ALARM_CREATE, EntityContext("alarm", NewId(ids)),
                            AlarmPayload("medication", title, time, days_of_week,
                                         active, user_id),
                            <<>>, <<>>, now)
    /\ ids' = ids + 1
    /\ UNCHANGED <<now, log, pc, loc, fetches, batch>>

UpdateAlarm(user_id, alarm_id, active) ==
    /\ Cardinality(EventsOfKind(ALARM_UPDATE) \cup EventsOfKind(ALARM_DELETE))
           < MaxAlarmChanges
    /\ events' = AlarmUpdated(events, user_id, alarm_id, active, now).evs
    /\ UNCHANGED <<now, log, pc, loc, fetches, batch, ids>>

DeleteAlarm(user_id, alarm_id) ==
    /\ Cardinality(EventsOfKind(ALARM_UPDATE) \cup EventsOfKind(ALARM_DELETE))
           < MaxAlarmChanges
    /\ events' = AlarmDeleted(events, user_id, alarm_id, now).evs
    /\ UNCHANGED <<now, log, pc, loc, fetches, batch, ids>>

CheckAlarms ==
    /\ Len(log) < MaxChecks
    /\ \E checked \in {CheckAlarmsRun(events, ids, now)} :
          /\ events' = checked.evs
          /\ ids' = checked.n
          /\ log' = Append(log, [op |-> "check_alarms", t |-> now,
                                 before |-> Len(events), raised |-> checked.raised])
    /\ UNCHANGED <<now, pc, loc, fetches, batch>>

NextAlarm ==
    \/ \E title \in AlarmTitles, time \in AlarmTimes, days_of_week \in AlarmDays,
          active \in BOOLEAN :
           CreateAlarm("u1", title, time, days_of_week, active)
    \/ \E alarm_id \in KnownIds, active \in {<<>>, <<TRUE>>, <<FALSE>>} :
           UpdateAlarm("u1", alarm_id, active)
    \/ \E alarm_id \in KnownIds : DeleteAlarm("u1", alarm_id)
    \/ CheckAlarms
    \/ TickMinute

SpecAlarm == Init /\ [][NextAlarm]_vars

\* Whether the alarm of the context is deleted, or inactive in its latest
\* create or update event.
AlarmOff(context_id) ==
    \/ \E k \in EventsOfKind(ALARM_DELETE) : events[k].context_id = context_id
    \/ \E k \in EventsOfKind(ALARM_CREATE) \cup EventsOfKind(ALARM_UPDATE) :
          /\ events[k].context_id = context_id
          /\ ~events[k].payload.active
          /\ \A j \in EventsOfKind(ALARM_CREATE) \cup EventsOfKind(ALARM_UPDATE) :
                events[j].context_id = context_id => j <= k

\* C40: check_alarms creates no notification for an alarm that was deleted
\* or whose latest state is active = false before the run.
C40_OffAlarmsDoNotFire ==
    [][\A k \in (Len(events) + 1)..Len(events') :
          events'[k].event_kind = NOTIFICATION_CREATE
          => \A j \in DOMAIN events :
                 EventId(j) = events'[k].payload.alarm_id
                 => ~AlarmOff(events[j].context_id)]_vars
====
